---- MODULE Spec2Model ----
(***************************************************************************)
(* Candidate scoring and ranking engine of the recruitment pipeline:       *)
(* evaluate_candidate (candidate_profile_evaluator.py),                    *)
(* evaluate_all_candidates and rank_candidates_by_affinity                 *)
(* (candidate_evaluator.py), run_candidate_evaluation                      *)
(* (candidate_evaluation_runner.py), the /evaluate_candidates handler      *)
(* (app.py), generate_feature_weights (job_requirements_analyzer.py),       *)
(* generate_feedback_for_candidate (candidate_feedback_generator.py) and   *)
(* generate_questions_for_top_k_candidates (top_k_question_generator.py).  *)
(*                                                                         *)
(* Specifications: Spec is the batch evaluator with the ranker; AuditSpec  *)
(* is the batch evaluator with the history of its oracle calls and of the  *)
(* file it found; RerunSpec repeats the batch with the same inputs;        *)
(* ScorerSpec, RunnerSpec, AnalyzerSpec and QuestionsSpec each follow one  *)
(* call of evaluate_candidate, run_candidate_evaluation,                   *)
(* generate_feature_weights and generate_questions_for_top_k_candidates    *)
(* from its inputs; FeedbackSpec follows the calls of                      *)
(* generate_feedback_for_candidate on one summary file.                    *)
(*                                                                         *)
(* Numbers: every float of the program (weight, score, affinity_score) is  *)
(* represented in hundredths, so 0.74 is 74 and the interval [0.0, 1.0] is *)
(* 0..100.                                                                 *)
(***************************************************************************)
EXTENDS Integers, Sequences, FiniteSets, TLC

\* ------------------------------------------------------------------ bounds
MaxCandidateId == 2
MaxLen == 2
MaxRuns == 2
MaxRankCalls == 2
MaxEntries == 2
MaxFeedbackCalls == 2
MaxTopK == 3

CandidateIds == 1..MaxCandidateId

RECURSIVE SeqsUpTo(_, _)
SeqsUpTo(S, n) ==
    IF n = 0 THEN {<<>>}
    ELSE LET shorter == SeqsUpTo(S, n - 1)
         IN shorter \cup {Append(s, x) : s \in {t \in shorter : Len(t) = n - 1}, x \in S}

\* The candidate_ids arguments: every list over the ids, repetitions included.
CandidateIdLists == SeqsUpTo(CandidateIds, MaxLen)

\* ------------------------------------------------- Python dict (insertion order)
\* A dict is the sequence of its items [key, value] in insertion order.
DictKeys(d) == {d[k].key : k \in DOMAIN d}

DictHas(d, key) == key \in DictKeys(d)

DictGet(d, key) == d[CHOOSE k \in DOMAIN d : d[k].key = key].value

\* d[key] = value: an existing key keeps its position, a new key goes last.
DictSet(d, key, value) ==
    IF DictHas(d, key)
    THEN [k \in DOMAIN d |-> IF d[k].key = key THEN [key |-> key, value |-> value] ELSE d[k]]
    ELSE Append(d, [key |-> key, value |-> value])

DictValues(d) == [k \in DOMAIN d |-> d[k].value]

\* ------------------------------------------------------------ data model
RequiredFields == {"feature_scores", "affinity_score"}

\* CandidateEvaluation(**d): pydantic accepts a dict that carries both fields
\* (extra keys are ignored) and checks no range: Field() only gives descriptions.
ValidCandidateEvaluation(d) == RequiredFields \subseteq d.fields

CandidateEvaluation(d) ==
    [type |-> "CandidateEvaluation",
     fields |-> RequiredFields,
     feature_scores |-> d.feature_scores,
     affinity_score |-> d.affinity_score]

ScenarioARequirements ==
    [features |-> <<[name |-> "Python", weight |-> 60],
                    [name |-> "Leadership", weight |-> 40]>>]

RequirementsInputs == {ScenarioARequirements}

\* ------------------------------------------------------ Document Collector
\* A candidate directory as the file system presents it: whether it exists and
\* its entries in enumeration order. suffix is the lower-cased extension.
NoDirectory == [exists |-> FALSE, entries |-> <<>>]

CorruptPdf == [name |-> "scan.pdf", suffix |-> ".pdf", is_file |-> TRUE, readable |-> FALSE]

LinkedinJson == [name |-> "linkedin.json", suffix |-> ".json", is_file |-> TRUE, readable |-> TRUE]

NotesMd == [name |-> "notes.md", suffix |-> ".md", is_file |-> TRUE, readable |-> TRUE]

PhotoPng == [name |-> "photo.png", suffix |-> ".png", is_file |-> TRUE, readable |-> TRUE]

SubDirectory == [name |-> "old.txt", suffix |-> ".txt", is_file |-> FALSE, readable |-> TRUE]

ReadmeTxt == [name |-> "readme.txt", suffix |-> ".txt", is_file |-> TRUE, readable |-> TRUE]

CoverRtf == [name |-> "cover.rtf", suffix |-> ".rtf", is_file |-> TRUE, readable |-> TRUE]

BrokenJson == [name |-> "portfolio.json", suffix |-> ".json", is_file |-> TRUE, readable |-> FALSE]

LockedTxt == [name |-> "locked.txt", suffix |-> ".txt", is_file |-> TRUE, readable |-> FALSE]

DirEntries ==
    {CorruptPdf, LinkedinJson, BrokenJson, NotesMd, ReadmeTxt, LockedTxt, CoverRtf,
     PhotoPng, SubDirectory}

\* Every directory of at most MaxEntries entries, and the absent one.
ScorerDirs ==
    {NoDirectory} \cup
    {[exists |-> TRUE, entries |-> entries] : entries \in SeqsUpTo(DirEntries, MaxEntries)}

\* The directories a candidate is attempted with in a batch run.
CandidateDirs ==
    {NoDirectory,
     [exists |-> TRUE, entries |-> <<PhotoPng, SubDirectory>>],
     [exists |-> TRUE, entries |-> <<CorruptPdf, LinkedinJson, NotesMd>>]}

\* load_pdf_text / load_json_text / load_text_file: the text, or an inline
\* error string when reading raises; none of them raises.
load_text(f, what) ==
    IF f.readable THEN <<"content of", f.name>> ELSE <<"Error reading", what, f.name>>

EmptyDocuments == [pdfs |-> <<>>, jsons |-> <<>>, texts |-> <<>>, all_content |-> <<>>]

AddDocument(documents, f) ==
    IF ~f.is_file THEN documents
    ELSE IF f.suffix = ".pdf" THEN
        LET content == load_text(f, "PDF")
        IN [documents EXCEPT
              !.pdfs = Append(@, [filename |-> f.name, content |-> content]),
              !.all_content = Append(@, [filename |-> f.name, type |-> "PDF", content |-> content])]
    ELSE IF f.suffix = ".json" THEN
        LET content == load_text(f, "JSON")
        IN [documents EXCEPT
              !.jsons = Append(@, [filename |-> f.name, content |-> content]),
              !.all_content = Append(@, [filename |-> f.name, type |-> "JSON", content |-> content])]
    ELSE IF f.suffix \in {".txt", ".md", ".rtf"} THEN
        LET content == load_text(f, "text file")
        IN [documents EXCEPT
              !.texts = Append(@, [filename |-> f.name, content |-> content]),
              !.all_content = Append(@, [filename |-> f.name, type |-> "TEXT", content |-> content])]
    ELSE documents

\* Mutant of ScanEntries: the first file that cannot be read ends the scan.
RECURSIVE ScanEntriesAborting(_, _)
ScanEntriesAborting(documents, entries) ==
    IF entries = <<>> THEN documents
    ELSE IF Head(entries).is_file /\ ~Head(entries).readable THEN documents
    ELSE ScanEntriesAborting(AddDocument(documents, Head(entries)), Tail(entries))

\* The loop of lines 137-180 over candidate_dir.iterdir(), in its order.
RECURSIVE ScanEntries(_, _)
ScanEntries(documents, entries) ==
    IF entries = <<>> THEN documents
    ELSE ScanEntries(AddDocument(documents, Head(entries)), Tail(entries))

scan_candidate_documents(candidate_dir) ==
    IF ~candidate_dir.exists THEN EmptyDocuments
    ELSE ScanEntries(EmptyDocuments, candidate_dir.entries)

\* One section of format_candidate_information: its heading, then the file
\* name and content of each document of the list, in the list's order.
Section(heading, docs) ==
    IF docs = <<>> THEN <<>>
    ELSE <<[heading |-> heading,
            files |-> [k \in DOMAIN docs |-> <<docs[k].filename, docs[k].content>>]]>>

\* format_candidate_information (lines 185-221): the PDF, JSON and text
\* sections, joined.
format_candidate_information(documents) ==
    IF documents.all_content = <<>> THEN <<>>
    ELSE Section("PDF Documents", documents.pdfs)
         \o Section("JSON Documents", documents.jsons)
         \o Section("Text Documents", documents.texts)

\* --------------------------------------------------------- scoring oracle
\* A JSON object as the oracle produces it: the keys it carries and, under
\* them, the feature scores and the affinity score.
FeatureScores(s1, s2) ==
    <<[name |-> "Python", weight |-> 60, score |-> s1],
      [name |-> "Leadership", weight |-> 40, score |-> s2]>>

PyDict(fields, feature_scores, affinity_score) ==
    [type |-> "dict", fields |-> fields,
     feature_scores |-> feature_scores, affinity_score |-> affinity_score]

\* Scenario A of the specification: (0.9*0.6 + 0.5*0.4) / 1.0 = 0.74.
ScenarioAPayload == PyDict(RequiredFields, FeatureScores(90, 50), 74)

\* Off the oracle's contract: a score above 1.0, and an affinity (0.91) that
\* is not the weighted mean (1.1) of the scores.
OffContractPayload == PyDict(RequiredFields, FeatureScores(150, 50), 91)

\* A flat dict {"Python": .., "Leadership": ..}: not the CandidateEvaluation shape.
FlatPayload == PyDict({"Python", "Leadership"}, <<>>, 0)

NoneValue == [type |-> "NoneType", fields |-> {}, feature_scores |-> <<>>, affinity_score |-> 0]

\* response.text as its sequence of tokens: fence_json is the opening of a
\* json code block, fence three backticks, json a JSON object, prose other text.
FenceJson == [tok |-> "fence_json", value |-> NoneValue]

Fence == [tok |-> "fence", value |-> NoneValue]

Prose == [tok |-> "prose", value |-> NoneValue]

Json(d) == [tok |-> "json", value |-> d]

IsFence(t) == t.tok \in {"fence_json", "fence"}

\* The outcomes of client.models.generate_content: it raises, or it returns a
\* response with .parsed and .text.
OracleRaises == [raised |-> TRUE, parsed |-> NoneValue, text |-> <<>>]

Response(parsed, text) == [raised |-> FALSE, parsed |-> parsed, text |-> text]

\* The oracle's replies in a batch run: each payload in one of the shapes the
\* decoder accepts, and the replies no strategy accepts.
OracleReplies ==
    {OracleRaises,
     Response(ScenarioAPayload, <<Json(ScenarioAPayload)>>),
     Response(CandidateEvaluation(ScenarioAPayload), <<Json(ScenarioAPayload)>>),
     Response(NoneValue, <<FenceJson, Json(OffContractPayload), Fence>>),
     Response(FlatPayload, <<Prose, Json(FlatPayload)>>)}

\* A JSON array: json.loads accepts it, CandidateEvaluation(**value) does not.
ListPayload == [type |-> "list", fields |-> {}, feature_scores |-> <<>>, affinity_score |-> 0]

\* response.text for one call of evaluate_candidate: the off-contract payload
\* (valid for the schema) or the flat one (not valid), bare, in a code block
\* with or without its closing fence, and with prose before or after.
ScorerTexts ==
    {<<>>,
     <<Json(OffContractPayload)>>,
     <<Json(FlatPayload)>>,
     <<Json(ListPayload)>>,
     <<FenceJson, Json(OffContractPayload), Fence>>,
     <<Fence, Json(OffContractPayload), Fence>>,
     <<FenceJson, Json(OffContractPayload)>>,
     <<FenceJson, Json(FlatPayload), Fence>>,
     <<Prose, Json(OffContractPayload)>>,
     <<Prose, FenceJson, Json(OffContractPayload), Fence>>,
     <<Json(OffContractPayload), Prose>>}

\* response.parsed: None, a dict that is or is not valid, a model, a list.
ScorerParsed ==
    {NoneValue, ScenarioAPayload, FlatPayload, CandidateEvaluation(ScenarioAPayload),
     ListPayload}

ScorerReplies ==
    {OracleRaises} \cup {Response(parsed, text) : parsed \in ScorerParsed, text \in ScorerTexts}

\* ------------------------------------------------------- Candidate Scorer
Ok(value) == [ok |-> TRUE, value |-> value, error |-> "none"]

Raise(error) == [ok |-> FALSE, value |-> NoneValue, error |-> error]

\* x.split(sep)[0] for a fence separator: the tokens before the first fence.
RECURSIVE UpToFence(_)
UpToFence(text) ==
    IF text = <<>> \/ IsFence(Head(text)) THEN <<>>
    ELSE <<Head(text)>> \o UpToFence(Tail(text))

\* Mutant of StripFences: the code block is not removed.
KeepFences(text) == text

\* json_text with the markdown code block removed (lines 315-320, 335-339).
StripFences(text) ==
    IF text # <<>> /\ IsFence(Head(text)) THEN UpToFence(Tail(text)) ELSE text

\* json.loads(json_text) and CandidateEvaluation(**parsed_dict).
ParseText(text) ==
    LET json_text == StripFences(text)
    IN IF Len(json_text) = 1 /\ json_text[1].tok = "json"
       THEN IF ValidCandidateEvaluation(json_text[1].value)
            THEN Ok(CandidateEvaluation(json_text[1].value))
            ELSE Raise("ValidationError")
       ELSE Raise("JSONDecodeError")

\* Lines 300-346: response.parsed first, then the text; the except branch
\* tries the text once more and re-raises the first error when that fails.
DecodeResponse(response) ==
    LET first ==
            IF response.parsed.type = "dict" THEN
                IF ValidCandidateEvaluation(response.parsed)
                THEN Ok(CandidateEvaluation(response.parsed))
                ELSE Raise("ValidationError")
            ELSE IF response.parsed.type = "CandidateEvaluation" THEN Ok(response.parsed)
            ELSE ParseText(response.text)
    IN IF first.ok THEN first
       ELSE LET fallback == ParseText(response.text)
            IN IF fallback.ok THEN fallback ELSE first

\* Mutant of OracleCalled: a document counts only when it could be read.
OracleCalledIfReadable(candidate_dir) ==
    \E k \in DOMAIN scan_candidate_documents(candidate_dir).all_content :
        scan_candidate_documents(candidate_dir).all_content[k].content[1] = "content of"

\* Lines 246-253: the oracle is called only when a document was found.
OracleCalled(candidate_dir) == scan_candidate_documents(candidate_dir).all_content # <<>>

\* Mutant of OracleCalls: a reply that cannot be decoded is asked for again.
OracleCallsWithRetry(candidate_dir, reply) ==
    IF ~OracleCalled(candidate_dir) THEN 0
    ELSE IF ~reply.raised /\ ~DecodeResponse(reply).ok THEN 2
    ELSE 1

\* The generate_content calls of one evaluate_candidate call: the single call
\* of lines 294-298, reached only past the raise of lines 249-253; neither
\* except branch of lines 300-346 calls the oracle.
OracleCalls(candidate_dir, reply) == IF OracleCalled(candidate_dir) THEN 1 ELSE 0

\* What generate_content can answer for a directory; NoReply when it is not called.
NoReply == [raised |-> FALSE, parsed |-> NoneValue, text |-> <<>>]

RepliesFor(candidate_dir) == IF OracleCalled(candidate_dir) THEN OracleReplies ELSE {NoReply}

\* evaluate_candidate(ID, requirements) for the directory of ID and the
\* oracle's reply to the one generate_content call.
evaluate_candidate(candidate_dir, reply) ==
    IF ~OracleCalled(candidate_dir) THEN Raise("ValueError")
    ELSE IF reply.raised THEN Raise("APIError")
    ELSE DecodeResponse(reply)

\* ensure_evaluation_model: a model passes through, a dict is converted.
ensure_evaluation_model(evaluation) ==
    IF evaluation.type = "CandidateEvaluation" THEN Ok(evaluation)
    ELSE IF evaluation.type = "dict" THEN
        IF ValidCandidateEvaluation(evaluation)
        THEN Ok(CandidateEvaluation(evaluation))
        ELSE Raise("ValueError")
    ELSE Raise("TypeError")

\* ------------------------------------------------------------ JSON file
\* Mutant of FloatRepr: the float is written with one decimal.
FloatReprOneDecimal(x) == [whole |-> x \div 100, decimals |-> ((x % 100) \div 10) * 10]

\* json.dump writes a float as its shortest repr, here the integer part and
\* the two decimals; json.load reads it back.
FloatRepr(x) == [whole |-> x \div 100, decimals |-> x % 100]

ParseFloat(r) == r.whole * 100 + r.decimals

DumpFeature(f) == [name |-> f.name, weight |-> FloatRepr(f.weight)]

LoadFeature(f) == [name |-> f.name, weight |-> ParseFloat(f.weight)]

DumpFeatureScore(f) ==
    [name |-> f.name, weight |-> FloatRepr(f.weight), score |-> FloatRepr(f.score)]

LoadFeatureScore(f) ==
    [name |-> f.name, weight |-> ParseFloat(f.weight), score |-> ParseFloat(f.score)]

DumpCandidate(c) ==
    [candidate_id |-> c.candidate_id,
     feature_scores |-> [k \in DOMAIN c.feature_scores |-> DumpFeatureScore(c.feature_scores[k])],
     affinity_score |-> FloatRepr(c.affinity_score)]

LoadCandidate(c) ==
    [candidate_id |-> c.candidate_id,
     feature_scores |-> [k \in DOMAIN c.feature_scores |-> LoadFeatureScore(c.feature_scores[k])],
     affinity_score |-> ParseFloat(c.affinity_score)]

DumpMetadata(m) ==
    [evaluation_date |-> m.evaluation_date,
     total_candidates |-> m.total_candidates,
     requirements |->
        [features |-> [k \in DOMAIN m.requirements.features |->
                          DumpFeature(m.requirements.features[k])]]]

LoadMetadata(m) ==
    [evaluation_date |-> m.evaluation_date,
     total_candidates |-> m.total_candidates,
     requirements |->
        [features |-> [k \in DOMAIN m.requirements.features |->
                          LoadFeature(m.requirements.features[k])]]]

\* json.dump(profiles_data): the members of "candidates" in the dict's order,
\* each a pair <<key, value>>.
json_dump(data) ==
    [metadata |-> DumpMetadata(data.metadata),
     candidates |-> [k \in DOMAIN data.candidates |->
                        <<data.candidates[k].key, DumpCandidate(data.candidates[k].value)>>]]

\* json.load: an object becomes a dict in the order of its members, a repeated
\* key keeping its last value.
RECURSIVE LoadMembers(_, _)
LoadMembers(d, members) ==
    IF members = <<>> THEN d
    ELSE LoadMembers(DictSet(d, Head(members)[1], LoadCandidate(Head(members)[2])),
                     Tail(members))

json_load(text) ==
    [metadata |-> LoadMetadata(text.metadata),
     candidates |-> LoadMembers(<<>>, text.candidates)]

\* ------------------------------------------------------- Batch Evaluator
VARIABLES
    pc,             \* "idle", or "loop" inside evaluate_all_candidates
    clock,          \* datetime.now(): the number of batch runs started
    candidate_ids,  \* the argument of the running (or last) batch run
    requirements,   \* the same
    pos,            \* the index of the next element of candidate_ids
    all_profiles,   \* dict candidate_id -> CandidateEvaluation
    succeeded,      \* history: the ids evaluate_candidate returned for in this run
    profiles_data,  \* <<>> or <<the dict the run serialized>>
    outcome,        \* how the last batch run ended: "none", "returned", "raised"
    file,           \* <<>> (no file) or <<the JSON document at output_path>>
    ranking,        \* the last result of rank_candidates_by_affinity
    rank_calls,     \* rank calls since the last batch run
    attempted,      \* history: the ids the loop has tried in this run, in order
    oracle_calls,   \* history: generate_content calls made in this run
    writes,         \* history: writes of the output file made in this run
    held_before,    \* history: the candidate keys the file held when the run began
    last_evaluation, \* history: per id, the evaluation its last successful attempt returned
    scorer,         \* one call of evaluate_candidate on its own (ScorerSpec)
    runner,         \* one call of run_candidate_evaluation (RunnerSpec)
    analyzer,       \* one call of generate_feature_weights (AnalyzerSpec)
    rerun,          \* the inputs repeated runs of the batch share (RerunSpec)
    feedback,       \* calls of generate_feedback_for_candidate (FeedbackSpec)
    questions       \* one call of generate_questions_for_top_k_candidates (QuestionsSpec)

batch_vars == <<pc, clock, candidate_ids, requirements, pos, all_profiles, succeeded,
                profiles_data, outcome, file, ranking, rank_calls,
                attempted, oracle_calls, writes, held_before, last_evaluation>>

vars == <<batch_vars, scorer, runner, analyzer, rerun, feedback, questions>>

NoRanking == [status |-> "none", entries |-> <<>>]

\* The value of scorer, runner and analyzer while no such call is modelled.
NoCall == [phase |-> "none"]

\* The candidate keys of the output file's document.
HeldKeys(f) == IF f = <<>> THEN {} ELSE {f[1].candidates[k][1] : k \in DOMAIN f[1].candidates}

BatchInit ==
    /\ pc = "idle"
    /\ clock = 0
    /\ candidate_ids = <<>>
    /\ requirements = ScenarioARequirements
    /\ pos = 1
    /\ all_profiles = <<>>
    /\ succeeded = {}
    /\ profiles_data = <<>>
    /\ outcome = "none"
    /\ ranking = NoRanking
    /\ rank_calls = 0
    /\ attempted = <<>>
    /\ oracle_calls = 0
    /\ writes = 0
    /\ held_before = {}
    /\ last_evaluation = [i \in CandidateIds |-> <<>>]

Init ==
    /\ BatchInit
    /\ file = <<>>
    /\ scorer = NoCall
    /\ runner = NoCall
    /\ analyzer = NoCall
    /\ rerun = NoCall
    /\ feedback = NoCall
    /\ questions = NoCall

\* evaluate_all_candidates is entered: all_profiles = {} (line 128).
EnterEvaluation(ids, req) ==
    /\ pc = "idle"
    /\ clock < MaxRuns
    /\ candidate_ids' = ids
    /\ requirements' = req
    /\ pc' = "loop"
    /\ clock' = clock + 1
    /\ pos' = 1
    /\ all_profiles' = <<>>
    /\ succeeded' = {}
    /\ profiles_data' = <<>>
    /\ outcome' = "none"
    /\ ranking' = NoRanking
    /\ rank_calls' = 0
    /\ attempted' = <<>>
    /\ oracle_calls' = 0
    /\ writes' = 0
    /\ last_evaluation' = [i \in CandidateIds |-> <<>>]
    /\ UNCHANGED <<file, scorer, analyzer, feedback, questions>>

\* A direct call of evaluate_all_candidates, with any list and requirements.
StartEvaluation ==
    /\ \E ids \in CandidateIdLists, req \in RequirementsInputs : EnterEvaluation(ids, req)
    /\ UNCHANGED <<held_before, runner, rerun>>

\* The same call, recording what the output file holds at that moment.
StartEvaluationAudited ==
    /\ \E ids \in CandidateIdLists, req \in RequirementsInputs : EnterEvaluation(ids, req)
    /\ held_before' = HeldKeys(file)
    /\ UNCHANGED <<runner, rerun>>

\* Mutant of ExceptException: the handler catches ValueError only.
ExceptValueErrorOnly(error) == error = "ValueError"

\* except Exception (line 160): every error of the attempt is an Exception.
ExceptException(error) ==
    error \in {"ValueError", "TypeError", "APIError", "ValidationError", "JSONDecodeError"}

\* The try body of one loop iteration (lines 137-152).
AttemptCandidate(candidate_dir, reply) ==
    LET evaluation == evaluate_candidate(candidate_dir, reply)
    IN IF evaluation.ok THEN ensure_evaluation_model(evaluation.value) ELSE evaluation

\* Mutant of NextCandidate: the list is walked from its end.
NextCandidateReversed(ids, p) == ids[Len(ids) + 1 - p]

\* for candidate_id in candidate_ids (line 132): the element of the p-th iteration.
NextCandidate(ids, p) == ids[p]

\* Mutant of StoreEvaluation: an id that already has an entry keeps it.
StoreFirstEvaluation(profiles, candidate_id, evaluation) ==
    IF DictHas(profiles, candidate_id) THEN profiles
    ELSE DictSet(profiles, candidate_id, evaluation)

\* all_profiles[candidate_id] = evaluation (line 152).
StoreEvaluation(profiles, candidate_id, evaluation) ==
    DictSet(profiles, candidate_id, evaluation)

\* One iteration of the loop of lines 132-165, for the directory the candidate
\* has and the reply the oracle gives.
Iteration(candidate_dir, reply) ==
    LET candidate_id == NextCandidate(candidate_ids, pos)
        attempt == AttemptCandidate(candidate_dir, reply)
    IN /\ attempted' = Append(attempted, candidate_id)
       /\ IF attempt.ok
          THEN /\ all_profiles' = StoreEvaluation(all_profiles, candidate_id, attempt.value)
               /\ succeeded' = succeeded \cup {candidate_id}
               /\ last_evaluation' = [last_evaluation EXCEPT ![candidate_id] = <<attempt.value>>]
               /\ pos' = pos + 1
               /\ UNCHANGED <<pc, outcome>>
          ELSE IF ExceptException(attempt.error)
          THEN /\ pos' = pos + 1
               /\ UNCHANGED <<pc, outcome, all_profiles, succeeded, last_evaluation>>
          ELSE /\ pc' = "idle"
               /\ outcome' = "raised"
               /\ UNCHANGED <<pos, all_profiles, succeeded, last_evaluation>>
       /\ UNCHANGED <<clock, candidate_ids, requirements, profiles_data, ranking,
                      rank_calls, held_before, scorer, runner, analyzer,
                   rerun, feedback, questions>>

\* The loop body leaves the output file alone: it is opened at line 199 only.
EvaluateNext ==
    /\ pc = "loop"
    /\ pos <= Len(candidate_ids)
    /\ \E candidate_dir \in CandidateDirs : \E reply \in RepliesFor(candidate_dir) :
          Iteration(candidate_dir, reply)
    /\ UNCHANGED <<file, writes, oracle_calls>>

\* Mutant of Metadata: total_candidates counts the ids given, not the successes.
MetadataCountingInput(profiles, req, now) ==
    [evaluation_date |-> now, total_candidates |-> Len(candidate_ids), requirements |-> req]

\* The "metadata" of profiles_data (lines 169-173).
Metadata(profiles, req, now) ==
    [evaluation_date |-> now, total_candidates |-> Len(profiles), requirements |-> req]

\* Mutant of SerializableCandidate: the entry's candidate_id is counted from
\* zero while its key is not.
SerializableCandidateFromZero(candidate_id, evaluation) ==
    [candidate_id |-> candidate_id - 1,
     feature_scores |-> [k \in DOMAIN evaluation.feature_scores |->
                            [name |-> evaluation.feature_scores[k].name,
                             weight |-> evaluation.feature_scores[k].weight,
                             score |-> evaluation.feature_scores[k].score]],
     affinity_score |-> evaluation.affinity_score]

\* One entry of profiles_data["candidates"] (lines 182-193).
SerializableCandidate(candidate_id, evaluation) ==
    [candidate_id |-> candidate_id,
     feature_scores |-> [k \in DOMAIN evaluation.feature_scores |->
                            [name |-> evaluation.feature_scores[k].name,
                             weight |-> evaluation.feature_scores[k].weight,
                             score |-> evaluation.feature_scores[k].score]],
     affinity_score |-> evaluation.affinity_score]

\* The loop of lines 177-193 over all_profiles.items().
RECURSIVE SerializableCandidates(_, _)
SerializableCandidates(candidates, items) ==
    IF items = <<>> THEN candidates
    ELSE SerializableCandidates(
            DictSet(candidates, ToString(Head(items).key),
                    SerializableCandidate(Head(items).key,
                                          ensure_evaluation_model(Head(items).value).value)),
            Tail(items))

ProfilesData(profiles, req, now) ==
    [metadata |-> Metadata(profiles, req, now),
     candidates |-> SerializableCandidates(<<>>, profiles)]

\* Mutant of WriteOutput: nothing is written when no candidate succeeded.
WriteOutputUnlessEmpty(old, data) ==
    IF data.candidates = <<>> THEN old ELSE <<json_dump(data)>>

\* Mutant of WriteOutput: the candidates the file held are kept unless the run
\* produced them again.
WriteOutputMerging(old, data) ==
    IF old = <<>> THEN <<json_dump(data)>>
    ELSE <<[json_dump(data) EXCEPT !.candidates =
              SelectSeq(old[1].candidates,
                        LAMBDA m : \A k \in DOMAIN data.candidates :
                                      data.candidates[k].key # m[1])
              \o @]>>

\* open(output_path, "w") and json.dump (lines 199-200): the file's new content.
WriteOutput(old, data) == <<json_dump(data)>>

\* Lines 167-206: after the loop the batch is serialized, written and returned.
SaveProfiles ==
    /\ pc = "loop"
    /\ pos > Len(candidate_ids)
    /\ LET data == ProfilesData(all_profiles, requirements, clock)
       IN /\ profiles_data' = <<data>>
          /\ file' = WriteOutput(file, data)
    /\ writes' = writes + 1
    /\ pc' = "idle"
    /\ outcome' = "returned"
    /\ UNCHANGED <<clock, candidate_ids, requirements, pos, all_profiles, succeeded,
                   ranking, rank_calls, attempted, oracle_calls, held_before,
                   last_evaluation, scorer, runner, analyzer,
                   rerun, feedback, questions>>

\* Mutant of EvaluateNextAudited: the batch is flushed to the file after every
\* attempt.
EvaluateNextFlushing ==
    /\ pc = "loop"
    /\ pos <= Len(candidate_ids)
    /\ \E candidate_dir \in CandidateDirs : \E reply \in RepliesFor(candidate_dir) :
          /\ Iteration(candidate_dir, reply)
          /\ oracle_calls' = oracle_calls + OracleCalls(candidate_dir, reply)
    /\ file' = WriteOutput(file, ProfilesData(all_profiles', requirements, clock))
    /\ writes' = writes + 1

\* The same iteration, counting the generate_content calls it makes.
EvaluateNextAudited ==
    /\ pc = "loop"
    /\ pos <= Len(candidate_ids)
    /\ \E candidate_dir \in CandidateDirs : \E reply \in RepliesFor(candidate_dir) :
          /\ Iteration(candidate_dir, reply)
          /\ oracle_calls' = oracle_calls + OracleCalls(candidate_dir, reply)
    /\ UNCHANGED <<file, writes>>

\* ------------------------------------------------------------------ Ranker
\* Mutant of InsertByAffinity: reverse=True is missing, the order is ascending.
RECURSIVE InsertAscending(_, _)
InsertAscending(sorted, x) ==
    IF sorted = <<>> THEN <<x>>
    ELSE IF Head(sorted).affinity_score <= x.affinity_score
         THEN <<Head(sorted)>> \o InsertAscending(Tail(sorted), x)
         ELSE <<x>> \o sorted

\* sorted(candidates, key=affinity_score, reverse=True): stable, so entries of
\* equal affinity keep their order.
RECURSIVE InsertByAffinity(_, _)
InsertByAffinity(sorted, x) ==
    IF sorted = <<>> THEN <<x>>
    ELSE IF Head(sorted).affinity_score >= x.affinity_score
         THEN <<Head(sorted)>> \o InsertByAffinity(Tail(sorted), x)
         ELSE <<x>> \o sorted

RECURSIVE SortedByAffinity(_, _)
SortedByAffinity(sorted, candidates) ==
    IF candidates = <<>> THEN sorted
    ELSE SortedByAffinity(InsertByAffinity(sorted, Head(candidates)), Tail(candidates))

\* Mutant of RankFile: a missing file is ranked as an empty batch.
RankFileOrEmpty(f) ==
    [status |-> "ok",
     entries |-> IF f = <<>> THEN <<>>
                 ELSE SortedByAffinity(<<>>, DictValues(json_load(f[1]).candidates))]

\* Lines 227-244 for the content of profiles_path.
RankFile(f) ==
    IF f = <<>> THEN [status |-> "FileNotFoundError", entries |-> <<>>]
    ELSE [status |-> "ok",
          entries |-> SortedByAffinity(<<>>, DictValues(json_load(f[1]).candidates))]

\* Mutant of rank_candidates_by_affinity: the ranked order is written back.
rank_and_rewrite_file ==
    /\ pc = "idle"
    /\ rank_calls < MaxRankCalls
    /\ ranking' = RankFile(file)
    /\ rank_calls' = rank_calls + 1
    /\ file' = IF file = <<>> THEN file
               ELSE <<[file[1] EXCEPT !.candidates =
                         [k \in DOMAIN RankFile(file).entries |->
                             <<ToString(RankFile(file).entries[k].candidate_id),
                               DumpCandidate(RankFile(file).entries[k])>>]]>>
    /\ UNCHANGED <<pc, clock, candidate_ids, requirements, pos, all_profiles, succeeded,
                   profiles_data, outcome, attempted, oracle_calls, writes, held_before,
                   last_evaluation, scorer, runner, analyzer,
                   rerun, feedback, questions>>

rank_candidates_by_affinity ==
    /\ pc = "idle"
    /\ rank_calls < MaxRankCalls
    /\ ranking' = RankFile(file)
    /\ rank_calls' = rank_calls + 1
    /\ UNCHANGED <<pc, clock, candidate_ids, requirements, pos, all_profiles, succeeded,
                   profiles_data, outcome, file, attempted, oracle_calls, writes,
                   held_before, last_evaluation, scorer, runner, analyzer,
                   rerun, feedback, questions>>

Next ==
    \/ StartEvaluation
    \/ EvaluateNext
    \/ SaveProfiles
    \/ rank_candidates_by_affinity

Spec == Init /\ [][Next]_vars

\* ------------------------------------------- evaluate_candidate on its own
\* One call of evaluate_candidate(ID, requirements): the directory of ID and
\* the reply the oracle has for it are the inputs, drawn at the start.
ScorerInit ==
    /\ BatchInit
    /\ file = <<>>
    /\ runner = NoCall
    /\ analyzer = NoCall
    /\ rerun = NoCall
    /\ feedback = NoCall
    /\ questions = NoCall
    /\ \E candidate_dir \in ScorerDirs, reply \in ScorerReplies :
          scorer = [phase |-> "called", candidate_dir |-> candidate_dir, reply |-> reply,
                    combined_text |-> <<>>, result |-> Raise("none"), oracle_calls |-> 0]

ScorerEvaluate ==
    /\ scorer.phase = "called"
    /\ LET reply == IF OracleCalled(scorer.candidate_dir) THEN scorer.reply ELSE NoReply
       IN scorer' = [scorer EXCEPT
                        !.phase = "done",
                        !.combined_text =
                            IF OracleCalled(scorer.candidate_dir)
                            THEN format_candidate_information(
                                    scan_candidate_documents(scorer.candidate_dir))
                            ELSE <<>>,
                        !.result = evaluate_candidate(scorer.candidate_dir, reply),
                        !.oracle_calls = OracleCalls(scorer.candidate_dir, reply)]
    /\ UNCHANGED <<batch_vars, runner, analyzer,
                   rerun, feedback, questions>>

ScorerNext == ScorerEvaluate

ScorerSpec == ScorerInit /\ [][ScorerNext]_vars

\* The batch evaluator alone, with the audit trail of its oracle calls and of
\* what the file held before each run.
AuditNext ==
    \/ StartEvaluationAudited
    \/ EvaluateNextAudited
    \/ SaveProfiles

AuditSpec == Init /\ [][AuditNext]_vars

\* ------------------------------------------------- run_candidate_evaluation
\* The job requirements file: <<>> when the path does not exist, else <<the
\* document json.load returns>>. Of a document only the keys the runner and
\* display_results read are kept: whether it has "tech_skills", and "weights"
\* and "weights_dict", each <<>> when the key is absent, else <<the dict>>.
ScenarioAWeights == <<[key |-> "Python", value |-> 60], [key |-> "Leadership", value |-> 40]>>

JobDocument(tech_skills, weights, weights_dict) ==
    [tech_skills |-> tech_skills, weights |-> weights, weights_dict |-> weights_dict]

\* analyze_job_from_url's result (lines 400-405) as save_job_analysis dumps it.
AnalyzerDocument == JobDocument(TRUE, <<ScenarioAWeights>>, <<>>)

\* The same document with the weights_dict view added.
CachedViewDocument == JobDocument(TRUE, <<ScenarioAWeights>>, <<ScenarioAWeights>>)

ViewOnlyDocument == JobDocument(TRUE, <<>>, <<ScenarioAWeights>>)

NoWeightsDocument == JobDocument(TRUE, <<>>, <<>>)

EmptyWeightsDocument == JobDocument(TRUE, <<<<>>>>, <<<<>>>>)

JobFiles ==
    {<<>>, <<AnalyzerDocument>>, <<CachedViewDocument>>, <<ViewOnlyDocument>>,
     <<NoWeightsDocument>>, <<EmptyWeightsDocument>>}

\* display_results (job_requirements_analyzer.py 470-500) subscripts
\* result["tech_skills"] and result["weights"]: KeyError when one is absent.
display_results(result) ==
    IF result.tech_skills /\ result.weights # <<>> THEN Ok(NoneValue) ELSE Raise("KeyError")

\* convert_weights_to_requirements: one feature per item of the dict, in order.
convert_weights_to_requirements(weights) ==
    [features |-> [k \in DOMAIN weights |->
                      [name |-> weights[k].key, weight |-> weights[k].value]]]

\* An entry of the data directory: its name split at "_", of which the second
\* piece (<<>> when there is none) either reads as an int or does not.
DataEntry(first, second, is_dir) == [first |-> first, second |-> second, is_dir |-> is_dir]

IntPiece(n) == <<[is_int |-> TRUE, value |-> n]>>

TextPiece == <<[is_int |-> FALSE, value |-> 0]>>

\* The listings of the data directory, in iterdir order: empty; candidate_2
\* before candidate_1; and candidate_1 among entries that are not candidates.
DataListings ==
    {<<>>,
     <<DataEntry("candidate", IntPiece(2), TRUE), DataEntry("candidate", IntPiece(1), TRUE)>>,
     <<DataEntry("candidate", TextPiece, TRUE), DataEntry("candidate", IntPiece(2), FALSE),
       DataEntry("job", TextPiece, TRUE), DataEntry("candidate", IntPiece(1), TRUE)>>}

RECURSIVE InsertSorted(_, _)
InsertSorted(sorted, x) ==
    IF sorted = <<>> THEN <<x>>
    ELSE IF Head(sorted) <= x THEN <<Head(sorted)>> \o InsertSorted(Tail(sorted), x)
    ELSE <<x>> \o sorted

RECURSIVE Sorted(_)
Sorted(ids) == IF ids = <<>> THEN <<>> ELSE InsertSorted(Sorted(Tail(ids)), Head(ids))

\* The loop of lines 78-84 of candidate_evaluator.py.
RECURSIVE CollectIds(_)
CollectIds(listing) ==
    IF listing = <<>> THEN <<>>
    ELSE LET item == Head(listing)
         IN (IF /\ item.is_dir
                /\ item.first = "candidate"
                /\ item.second # <<>>
                /\ item.second[1].is_int
             THEN <<item.second[1].value>> ELSE <<>>) \o CollectIds(Tail(listing))

\* get_candidate_ids(project_root, data_dir=None): project_root is a required
\* positional parameter, so a call that does not pass it raises TypeError.
get_candidate_ids(arguments, listing) ==
    IF "project_root" \notin arguments THEN Raise("TypeError")
    ELSE Ok(Sorted(CollectIds(listing)))

\* The candidate_ids argument: <<>> for None, else <<the list>>.
None == <<>>

IdsArguments == {None} \cup {<<ids>> : ids \in CandidateIdLists}

\* job_analysis.get("weights_dict") (line 65): <<>> for None.
WeightsOf(job_analysis) == job_analysis.weights_dict

\* Mutant of Falsy: only None counts.
IsNone(option) == option = <<>>

\* not x, for None or a dict or a list: None and the empty ones.
Falsy(option) == option = <<>> \/ option[1] = <<>>

\* Lines 40-75 of run_candidate_evaluation: what is raised before the
\* evaluation, or the candidate_ids and requirements it is entered with.
Preflight(job_file, ids_argument, listing) ==
    IF job_file = <<>> THEN Raise("FileNotFoundError")
    ELSE IF ~display_results(job_file[1]).ok THEN Raise(display_results(job_file[1]).error)
    ELSE IF Falsy(WeightsOf(job_file[1])) THEN Raise("ValueError")
    ELSE LET found == IF ids_argument = None
                      THEN get_candidate_ids({}, listing)
                      ELSE Ok(ids_argument[1])
         IN IF ~found.ok THEN found
            ELSE IF Falsy(<<found.value>>) THEN Raise("ValueError")
            ELSE [ok |-> TRUE, error |-> "none", value |-> NoneValue,
                  candidate_ids |-> found.value,
                  requirements |-> convert_weights_to_requirements(WeightsOf(job_file[1])[1])]

\* Mutant of StatusOf: there is no except ValueError clause.
StatusWithoutBadRequest(error) ==
    IF error = "none" THEN 200
    ELSE IF error = "FileNotFoundError" THEN 404
    ELSE 500

\* The except clauses of the /evaluate_candidates handler (app.py 93-100), in
\* their order, and the plain return of line 92.
StatusOf(error) ==
    IF error = "none" THEN 200
    ELSE IF error = "FileNotFoundError" THEN 404
    ELSE IF error \in {"ValueError", "JSONDecodeError", "ValidationError"} THEN 400
    ELSE 500

\* The call's record: how it was made, its inputs, and how it ended.
RunnerCall(via, job_file, ids_argument, listing, phase, error) ==
    [phase |-> phase, via |-> via, job_file |-> job_file, ids_argument |-> ids_argument,
     listing |-> listing, error |-> error,
     status_code |-> IF via = "endpoint" /\ phase # "running" THEN StatusOf(error) ELSE 0,
     total_evaluated |-> 0, top_candidate |-> <<>>,
     file_before |-> file]

\* run_candidate_evaluation up to its call of evaluate_all_candidates (line 91).
CallRunner(via, job_file, ids_argument, listing) ==
    /\ pc = "idle"
    /\ runner.phase = "none"
    /\ LET preflight == Preflight(job_file, ids_argument, listing)
       IN IF preflight.ok
          THEN /\ EnterEvaluation(preflight.candidate_ids, preflight.requirements)
               /\ held_before' = HeldKeys(file)
               /\ runner' = RunnerCall(via, job_file, ids_argument, listing, "running", "none")
               /\ UNCHANGED rerun
          ELSE /\ runner' = RunnerCall(via, job_file, ids_argument, listing, "raised",
                                       preflight.error)
               /\ UNCHANGED <<batch_vars, scorer, analyzer,
                   rerun, feedback, questions>>

\* The listing matters only when the ids are to be discovered.
ListingsFor(ids_argument) == IF ids_argument = None THEN DataListings ELSE {<<>>}

\* A call by a script or another module, with or without candidate_ids.
run_candidate_evaluation ==
    \E job_file \in JobFiles, ids_argument \in IdsArguments :
        \E listing \in ListingsFor(ids_argument) :
            CallRunner("direct", job_file, ids_argument, listing)

\* GET /evaluate_candidates (app.py 83-100): the runner is called with
\* project_root only, so candidate_ids is None.
evaluate_candidates ==
    \E job_file \in JobFiles, listing \in DataListings :
        CallRunner("endpoint", job_file, None, listing)

\* Mutant of RunnerReturn: the file is ranked while evaluate_all_candidates is
\* still in its loop, before this run has written it.
RunnerReturnEarly ==
    /\ runner.phase = "running"
    /\ pc = "loop"
    /\ ranking' = RankFile(file)
    /\ rank_calls' = rank_calls + 1
    /\ runner' = [runner EXCEPT
                     !.phase = IF RankFile(file).status = "ok" THEN "returned" ELSE "raised",
                     !.error = IF RankFile(file).status = "ok" THEN "none"
                               ELSE RankFile(file).status,
                     !.total_evaluated = Len(all_profiles),
                     !.top_candidate = IF RankFile(file).entries = <<>> THEN <<>>
                                       ELSE <<RankFile(file).entries[1]>>]
    /\ UNCHANGED <<pc, clock, candidate_ids, requirements, pos, all_profiles, succeeded,
                   profiles_data, outcome, file, attempted, oracle_calls, writes,
                   held_before, last_evaluation, scorer, analyzer,
                   rerun, feedback, questions>>

\* Lines 97-115, when evaluate_all_candidates has returned: the file is ranked
\* and the summary returned.
RunnerReturn ==
    /\ runner.phase = "running"
    /\ pc = "idle"
    /\ outcome = "returned"
    /\ ranking' = RankFile(file)
    /\ rank_calls' = rank_calls + 1
    /\ runner' = [runner EXCEPT
                     !.phase = IF RankFile(file).status = "ok" THEN "returned" ELSE "raised",
                     !.error = IF RankFile(file).status = "ok" THEN "none"
                               ELSE RankFile(file).status,
                     !.status_code = IF runner.via # "endpoint" THEN 0
                                     ELSE IF RankFile(file).status = "ok" THEN StatusOf("none")
                                     ELSE StatusOf(RankFile(file).status),
                     !.total_evaluated = Len(all_profiles),
                     !.top_candidate = IF RankFile(file).entries = <<>> THEN <<>>
                                       ELSE <<RankFile(file).entries[1]>>]
    /\ UNCHANGED <<pc, clock, candidate_ids, requirements, pos, all_profiles, succeeded,
                   profiles_data, outcome, file, attempted, oracle_calls, writes,
                   held_before, last_evaluation, scorer, analyzer,
                   rerun, feedback, questions>>

\* One call of run_candidate_evaluation is followed from its start, with or
\* without an evaluations file left by an earlier run, holding candidate 2.
EarlierFile ==
    WriteOutput(<<>>, ProfilesData(<<[key |-> 2, value |-> CandidateEvaluation(ScenarioAPayload)]>>,
                                   ScenarioARequirements, 0))

RunnerInit ==
    /\ BatchInit
    /\ file \in {<<>>, EarlierFile}
    /\ scorer = NoCall
    /\ runner = NoCall
    /\ analyzer = NoCall
    /\ rerun = NoCall
    /\ feedback = NoCall
    /\ questions = NoCall

RunnerNext ==
    \/ run_candidate_evaluation
    \/ evaluate_candidates
    \/ EvaluateNextAudited
    \/ SaveProfiles
    \/ RunnerReturn

RunnerSpec == RunnerInit /\ [][RunnerNext]_vars

\* ------------------------------------------------- generate_feature_weights
\* The ten evaluation dimensions (job_requirements_analyzer.py 39-50).
FEATURES ==
    <<"Technical Mastery", "Discipline & Consistency", "Execution Reliability",
      "Cultural Agreeableness", "Creative Divergence", "Leadership Initiative",
      "Resilience & Grit", "Communication Clarity", "Team Elevation", "Growth Hunger">>

\* What json.loads can return: an object with its members in order, or a value
\* of another type.
JsonObject(items) == [type |-> "dict", items |-> items]

JsonList == [type |-> "list", items |-> <<>>]

JsonNumber == [type |-> "float", items |-> <<>>]

\* The keys the LLM's objects are built from, in the order it writes them;
\* "Seniority" is not one of FEATURES.
LlmKeys == <<"Growth Hunger", "Technical Mastery", "Seniority", "Team Elevation">>

LlmWeights == {30, 80}

\* The objects over a subset of LlmKeys, with every choice of weights.
PartialObjects ==
    UNION {{JsonObject([k \in DOMAIN SelectSeq(LlmKeys, LAMBDA key : key \in keys) |->
                           [key |-> SelectSeq(LlmKeys, LAMBDA key : key \in keys)[k],
                            value |-> w[SelectSeq(LlmKeys, LAMBDA key : key \in keys)[k]]]])
              : w \in [keys -> LlmWeights]}
           : keys \in SUBSET {LlmKeys[k] : k \in DOMAIN LlmKeys}}

\* An object with a weight for each of FEATURES, Technical Mastery included.
CompleteObject ==
    JsonObject([k \in DOMAIN FEATURES |->
                   [key |-> FEATURES[k], value |-> IF k = 1 THEN 30 ELSE 80]])

LlmValues == PartialObjects \cup {CompleteObject, JsonList, JsonNumber}

\* generate_content raises, or response.text is a JSON value: bare, in a json
\* code block, in a plain code block, or after a sentence of prose.
AnalyzerReplies ==
    {[raised |-> TRUE, text |-> <<>>]} \cup
    UNION {{[raised |-> FALSE, text |-> <<Json(v)>>],
            [raised |-> FALSE, text |-> <<FenceJson, Json(v), Fence>>],
            [raised |-> FALSE, text |-> <<Fence, Json(v), Fence>>],
            [raised |-> FALSE, text |-> <<Prose, Json(v)>>]} : v \in LlmValues}

\* The fallback of lines 311-312.
DefaultWeights ==
    [k \in DOMAIN FEATURES |->
        [key |-> FEATURES[k],
         value |-> IF FEATURES[k] = "Technical Mastery" THEN 100 ELSE 50]]

\* Mutant of SetTechnicalMastery: the LLM's weight is kept.
KeepTechnicalMastery(weights) == weights

\* weights["Technical Mastery"] = 1.0 (line 300).
SetTechnicalMastery(weights) == DictSet(weights, "Technical Mastery", 100)

\* The loop of lines 303-305.
RECURSIVE FillMissing(_, _)
FillMissing(weights, features) ==
    IF features = <<>> THEN weights
    ELSE FillMissing(IF DictHas(weights, Head(features)) THEN weights
                     ELSE DictSet(weights, Head(features), 50),
                     Tail(features))

\* Lines 284-312: every exception of the try body ends in the fallback; the
\* item assignment of line 300 raises TypeError on anything but a dict.
generate_feature_weights(reply) ==
    IF reply.raised THEN DefaultWeights
    ELSE LET result == StripFences(reply.text)
         IN IF ~(Len(result) = 1 /\ result[1].tok = "json") THEN DefaultWeights
            ELSE IF result[1].value.type # "dict" THEN DefaultWeights
            ELSE FillMissing(SetTechnicalMastery(result[1].value.items), FEATURES)

\* One call of generate_feature_weights, for the reply the LLM has.
AnalyzerInit ==
    /\ BatchInit
    /\ file = <<>>
    /\ scorer = NoCall
    /\ runner = NoCall
    /\ rerun = NoCall
    /\ feedback = NoCall
    /\ questions = NoCall
    /\ \E reply \in AnalyzerReplies :
          analyzer = [phase |-> "called", reply |-> reply, weights |-> <<>>]

GenerateFeatureWeights ==
    /\ analyzer.phase = "called"
    /\ analyzer' = [analyzer EXCEPT !.phase = "done",
                                    !.weights = generate_feature_weights(analyzer.reply)]
    /\ UNCHANGED <<batch_vars, scorer, runner, rerun, feedback, questions>>

AnalyzerNext == GenerateFeatureWeights

AnalyzerSpec == AnalyzerInit /\ [][AnalyzerNext]_vars

\* ------------------------------------------------ repeated runs of the batch
\* evaluate_all_candidates is run again and again with the same candidate_ids
\* and requirements, every candidate having the same directory and the oracle
\* the same reply for it in every run. Between two runs the output file may be
\* left as written, removed, or replaced by the file of an earlier batch.
RerunReplies ==
    {OracleRaises,
     Response(ScenarioAPayload, <<Json(ScenarioAPayload)>>),
     Response(NoneValue, <<FenceJson, Json(OffContractPayload), Fence>>)}

\* A candidate's directory with the reply the oracle has for it, if it is asked.
RerunAnswers ==
    LET dirs == {NoDirectory, [exists |-> TRUE, entries |-> <<LinkedinJson>>]}
    IN {a \in [candidate_dir : dirs, reply : RerunReplies \cup {NoReply}] :
           a.reply \in RepliesFor(a.candidate_dir)}

RerunInit ==
    /\ BatchInit
    /\ file \in {<<>>, EarlierFile}
    /\ scorer = NoCall
    /\ runner = NoCall
    /\ analyzer = NoCall
    /\ feedback = NoCall
    /\ questions = NoCall
    /\ \E ids \in CandidateIdLists, req \in RequirementsInputs :
       \E answers \in [CandidateIds -> RerunAnswers] :
          rerun = [phase |-> "ready", candidate_ids |-> ids, requirements |-> req,
                   answers |-> answers, written |-> <<>>]

\* The next run begins, with the same arguments as every other.
RerunStart ==
    /\ rerun.phase = "ready"
    /\ EnterEvaluation(rerun.candidate_ids, rerun.requirements)
    /\ held_before' = HeldKeys(file)
    /\ rerun' = [rerun EXCEPT !.phase = "running"]
    /\ UNCHANGED runner

\* One iteration of the loop, the candidate having the directory and the reply
\* it has in every run.
RerunEvaluateNext ==
    /\ pc = "loop"
    /\ pos <= Len(candidate_ids)
    /\ LET answer == rerun.answers[NextCandidate(candidate_ids, pos)]
       IN Iteration(answer.candidate_dir, answer.reply)
    /\ UNCHANGED <<file, writes, oracle_calls>>

\* After a run returned: what it wrote is remembered, and the file is left,
\* removed or replaced before the next run.
BetweenRuns ==
    /\ pc = "idle"
    /\ outcome = "returned"
    /\ rerun.phase = "running"
    /\ rerun' = [rerun EXCEPT !.phase = "ready", !.written = file]
    /\ file' \in {file, <<>>, EarlierFile}
    /\ UNCHANGED <<pc, clock, candidate_ids, requirements, pos, all_profiles, succeeded,
                   profiles_data, outcome, ranking, rank_calls, attempted, oracle_calls,
                   writes, held_before, last_evaluation, scorer, runner, analyzer,
                   feedback, questions>>

RerunNext ==
    \/ RerunStart
    \/ RerunEvaluateNext
    \/ SaveProfiles
    \/ BetweenRuns

RerunSpec == RerunInit /\ [][RerunNext]_vars

\* ------------------------------------------ generate_feedback_for_candidate
\* candidate_feedback_generator.py. A CandidateFeedback is kept by two of its
\* fields, the candidate_id and the industry_alignment_score the oracle gave;
\* complete tells whether the dict carries every required field.
FeedbackDict(complete, score) ==
    [type |-> "dict", complete |-> complete, candidate_id |-> 1,
     industry_alignment_score |-> score]

\* CandidateFeedback(**d).
CandidateFeedback(d) == [d EXCEPT !.type = "CandidateFeedback"]

\* feedback.model_dump(): the plain dict of the model's fields.
model_dump(model) ==
    [candidate_id |-> model.candidate_id,
     industry_alignment_score |-> model.industry_alignment_score]

\* The oracle's replies to the feedback prompt: it raises; .parsed is a dict,
\* complete or not, or a model; or only .text carries the JSON, or prose.
FeedbackReplies ==
    {OracleRaises,
     Response(FeedbackDict(TRUE, 60), <<Json(FeedbackDict(TRUE, 60))>>),
     Response(CandidateFeedback(FeedbackDict(TRUE, 80)), <<Json(FeedbackDict(TRUE, 80))>>),
     Response(FeedbackDict(FALSE, 60), <<Json(FeedbackDict(FALSE, 60))>>),
     Response(NoneValue, <<FenceJson, Json(FeedbackDict(TRUE, 80)), Fence>>),
     Response(NoneValue, <<Prose>>)}

\* Lines 330-353: response.parsed, else the text without its code block; every
\* error is re-raised.
ParseFeedback(response) ==
    IF response.parsed.type = "dict" THEN
        IF response.parsed.complete THEN Ok(CandidateFeedback(response.parsed))
        ELSE Raise("ValidationError")
    ELSE IF response.parsed.type = "CandidateFeedback" THEN Ok(response.parsed)
    ELSE LET json_text == StripFences(response.text)
         IN IF Len(json_text) = 1 /\ json_text[1].tok = "json"
            THEN IF json_text[1].value.complete
                 THEN Ok(CandidateFeedback(json_text[1].value))
                 ELSE Raise("ValidationError")
            ELSE Raise("JSONDecodeError")

\* generate_candidate_feedback (lines 81-355): no oracle call without a
\* document; the number of generate_content calls comes with the result.
generate_candidate_feedback(candidate_dir, reply) ==
    IF scan_candidate_documents(candidate_dir).all_content = <<>>
    THEN [result |-> Raise("ValueError"), oracle_calls |-> 0]
    ELSE IF reply.raised THEN [result |-> Raise("APIError"), oracle_calls |-> 1]
    ELSE [result |-> ParseFeedback(reply), oracle_calls |-> 1]

\* Mutant of LookupEvaluation: a candidate the file does not hold is given an
\* empty evaluation.
LookupEvaluationOrEmpty(evaluations_data, candidate_key) ==
    IF DictHas(evaluations_data.candidates, candidate_key)
    THEN Ok(DictGet(evaluations_data.candidates, candidate_key))
    ELSE Ok(NoneValue)

\* Lines 393-396: evaluations_data.get("candidates", {}).get(candidate_key),
\* and ValueError when there is none.
LookupEvaluation(evaluations_data, candidate_key) ==
    IF DictHas(evaluations_data.candidates, candidate_key)
    THEN Ok(DictGet(evaluations_data.candidates, candidate_key))
    ELSE Raise("ValueError")

\* Mutant of FeedbackGeneratedFor: the count is incremented at every call.
FeedbackGeneratedForIncremented(feedback_map, previous) == previous + 1

\* Line 425: len(feedback_data["feedback"]).
FeedbackGeneratedFor(feedback_map, previous) == Len(feedback_map)

\* Lines 410-426: the summary document after the call, from the file's content
\* (or a new document) and the feedback generated.
UpdatedSummary(summary, evaluations_data, candidate_key, generated, now) ==
    LET feedback_data ==
            IF summary # <<>> THEN summary[1]
            ELSE [metadata |-> [generation_date |-> now,
                                total_candidates |-> Len(evaluations_data.candidates),
                                feedback_generated_for |-> 0],
                  feedback |-> <<>>]
        feedback_map == DictSet(feedback_data.feedback, candidate_key, model_dump(generated))
    IN [metadata |-> [feedback_data.metadata EXCEPT
                         !.feedback_generated_for =
                             FeedbackGeneratedFor(feedback_map, @),
                         !.generation_date = now],
        feedback |-> feedback_map]

\* A summary file an earlier session left: feedback for candidate 2.
EarlierSummary ==
    <<UpdatedSummary(<<>>, json_load(EarlierFile[1]), "2",
                     CandidateFeedback(FeedbackDict(TRUE, 60)), 0)>>

\* The evaluation files the calls read: none, or the file of a batch in which
\* candidate 2 succeeded, candidates 1 and 2 did, or none did.
EvaluationFiles ==
    {<<>>,
     EarlierFile,
     WriteOutput(<<>>, ProfilesData(<<[key |-> 1, value |-> CandidateEvaluation(ScenarioAPayload)],
                                      [key |-> 2, value |-> CandidateEvaluation(OffContractPayload)]>>,
                                    ScenarioARequirements, 0)),
     WriteOutput(<<>>, ProfilesData(<<>>, ScenarioARequirements, 0))}

NoFeedbackFiles == [candidate_id \in CandidateIds |-> <<>>]

\* feedback: the files the calls work on, and of the last call its argument,
\* its outcome and what the files and the call counter were before it.
FeedbackInit ==
    /\ BatchInit
    /\ file \in EvaluationFiles
    /\ scorer = NoCall
    /\ runner = NoCall
    /\ analyzer = NoCall
    /\ rerun = NoCall
    /\ questions = NoCall
    /\ \E summary \in {<<>>, EarlierSummary}, requirements_file \in {<<>>, <<AnalyzerDocument>>} :
          feedback = [phase |-> "ready", calls |-> 0,
                      requirements_file |-> requirements_file,
                      first_summary |-> summary,
                      summary |-> summary, individual |-> NoFeedbackFiles,
                      oracle_calls |-> 0,
                      candidate_id |-> 0, result |-> Ok(NoneValue),
                      summary_before |-> summary, individual_before |-> NoFeedbackFiles,
                      oracle_calls_before |-> 0,
                      generated |-> NoFeedbackFiles]

\* One call of generate_feedback_for_candidate(candidate_id) (lines 362-435),
\* for the directory the candidate has and the reply the oracle gives.
GenerateFeedbackFor(candidate_id, candidate_dir, reply) ==
    LET before == [feedback EXCEPT !.phase = "called",
                                   !.calls = @ + 1,
                                   !.candidate_id = candidate_id,
                                   !.summary_before = feedback.summary,
                                   !.individual_before = feedback.individual,
                                   !.oracle_calls_before = feedback.oracle_calls]
        candidate_key == ToString(candidate_id)
    IN IF file = <<>> \/ feedback.requirements_file = <<>>
       THEN feedback' = [before EXCEPT !.result = Raise("FileNotFoundError")]
       ELSE LET evaluations_data == json_load(file[1])
                candidate_eval == LookupEvaluation(evaluations_data, candidate_key)
            IN IF ~candidate_eval.ok
               THEN feedback' = [before EXCEPT !.result = candidate_eval]
               ELSE LET call == generate_candidate_feedback(candidate_dir, reply)
                    IN IF ~call.result.ok
                       THEN feedback' = [before EXCEPT
                                            !.result = call.result,
                                            !.oracle_calls = @ + call.oracle_calls]
                       ELSE feedback' =
                              [before EXCEPT
                                  !.result = call.result,
                                  !.oracle_calls = @ + call.oracle_calls,
                                  !.summary = <<UpdatedSummary(feedback.summary,
                                                               evaluations_data, candidate_key,
                                                               call.result.value,
                                                               feedback.calls + 1)>>,
                                  !.individual[candidate_id] =
                                      <<model_dump(call.result.value)>>,
                                  !.generated[candidate_id] =
                                      <<model_dump(call.result.value)>>]

FeedbackDirs == {NoDirectory, [exists |-> TRUE, entries |-> <<LinkedinJson>>]}

generate_feedback_for_candidate ==
    /\ feedback.calls < MaxFeedbackCalls
    /\ \E candidate_id \in CandidateIds, candidate_dir \in FeedbackDirs,
          reply \in FeedbackReplies :
          GenerateFeedbackFor(candidate_id, candidate_dir, reply)
    /\ UNCHANGED <<batch_vars, scorer, runner, analyzer, rerun, questions>>

FeedbackNext == generate_feedback_for_candidate

FeedbackSpec == FeedbackInit /\ [][FeedbackNext]_vars

\* ---------------------------------- generate_questions_for_top_k_candidates
\* top_k_question_generator.py. A question dict of the oracle's JSON array is
\* kept by whether it has every key the code subscripts and by its
\* difficulty_level, which Question restricts to easy, medium and hard.
QuestionDict(complete, difficulty_level) ==
    [complete |-> complete, difficulty_level |-> difficulty_level]

JsonArray(items) == [type |-> "list", items |-> items]

\* Question(...): pydantic rejects a difficulty_level outside the Literal.
Question(q, question_type) ==
    [question_type |-> question_type, difficulty_level |-> q.difficulty_level]

\* The question types in the order of the five calls (lines 572-594), and the
\* num_questions each call passes.
QuestionTypes ==
    <<"gap_probing", "depth_validation", "behavioral", "technical", "role_specific">>

NumQuestions == <<3, 2, 2, 2, 1>>

\* model.generate_content for one question prompt: it raises, or response.text
\* is an array of four good questions, an array whose second question lacks a
\* key, an array whose first question has a difficulty_level the schema does
\* not know, or no JSON.
QuestionReplies ==
    {OracleRaises,
     Response(NoneValue, <<Json(JsonArray([k \in 1..4 |-> QuestionDict(TRUE, "medium")]))>>),
     Response(NoneValue, <<Json(JsonArray(<<QuestionDict(TRUE, "easy"),
                                            QuestionDict(FALSE, "easy")>>))>>),
     Response(NoneValue, <<Json(JsonArray(<<QuestionDict(TRUE, "expert")>>))>>),
     Response(NoneValue, <<Prose>>)}

Min(a, b) == IF a <= b THEN a ELSE b

\* Mutant of SliceTo: the slice is the whole list.
SliceNone(list, n) == list

\* list[:n]: the first n elements, and all but the last -n for a negative n.
SliceTo(list, n) ==
    IF n >= 0 THEN SubSeq(list, 1, Min(n, Len(list)))
    ELSE SubSeq(list, 1, Len(list) + n)

\* The list comprehension of a generator over questions_data[:num_questions]:
\* the first question without a key raises KeyError, the first with a
\* difficulty_level Question rejects raises ValidationError.
RECURSIVE BuildQuestions(_, _, _)
BuildQuestions(built, items, question_type) ==
    IF items = <<>> THEN Ok(built)
    ELSE IF ~Head(items).complete THEN Raise("KeyError")
    ELSE IF Head(items).difficulty_level \notin {"easy", "medium", "hard"}
    THEN Raise("ValidationError")
    ELSE BuildQuestions(Append(built, Question(Head(items), question_type)),
                        Tail(items), question_type)

\* One of the five generators once it has a prompt (e.g. lines 147-170):
\* JSONDecodeError and KeyError give no question, any other error propagates.
ParseQuestions(reply, question_type, num_questions) ==
    IF reply.raised THEN Raise("APIError")
    ELSE IF ~(Len(reply.text) = 1 /\ reply.text[1].tok = "json") THEN Ok(<<>>)
    ELSE LET built == BuildQuestions(<<>>, SliceTo(reply.text[1].value.items, num_questions),
                                     question_type)
         IN IF built.ok THEN built
            ELSE IF built.error = "KeyError" THEN Ok(<<>>)
            ELSE built

\* analyze_candidate_scores (lines 463-490): the features that count as gaps
\* and as strengths. Their order by weight only shapes the prompt.
LowScoring(candidate_evaluation) ==
    SelectSeq(candidate_evaluation.feature_scores, LAMBDA fs : fs.score < 40 /\ fs.weight >= 50)

HighScoring(candidate_evaluation) ==
    SelectSeq(candidate_evaluation.feature_scores, LAMBDA fs : fs.score >= 70 /\ fs.weight >= 50)

\* The g-th generator call for a candidate: the gap and depth generators
\* return [] without a prompt when there is no such feature (108-109, 184-185).
GenerateQuestions(g, candidate_evaluation, reply) ==
    IF g = 1 /\ LowScoring(candidate_evaluation) = <<>> THEN Ok(<<>>)
    ELSE IF g = 2 /\ HighScoring(candidate_evaluation) = <<>> THEN Ok(<<>>)
    ELSE ParseQuestions(reply, QuestionTypes[g], NumQuestions[g])

\* Lines 596-609: the CandidateQuestions of one candidate from its five lists.
CandidateQuestions(candidate_evaluation, lists) ==
    [candidate_id |-> candidate_evaluation.candidate_id,
     candidate_affinity_score |-> candidate_evaluation.affinity_score,
     gap_probing_questions |-> lists[1],
     depth_validation_questions |-> lists[2],
     behavioral_questions |-> lists[3],
     technical_questions |-> lists[4],
     role_specific_questions |-> lists[5],
     total_questions |-> Len(lists[1]) + Len(lists[2]) + Len(lists[3]) + Len(lists[4])
                            + Len(lists[5])]

\* An evaluation with a gap (Python 0.3) and a strength (Leadership 0.9), both
\* in features of weight 0.5 or more.
GapAndStrengthPayload ==
    PyDict(RequiredFields,
           <<[name |-> "Python", weight |-> 60, score |-> 30],
             [name |-> "Leadership", weight |-> 50, score |-> 90]>>, 57)

\* The evaluation files the call reads: none, and the files of batches with
\* no candidate, with candidate 1, and with candidates 2, 1 and 3 in that
\* order, 1 and 3 having the same affinity and 2 the lowest.
QuestionFiles ==
    {<<>>,
     WriteOutput(<<>>, ProfilesData(<<>>, ScenarioARequirements, 0)),
     WriteOutput(<<>>, ProfilesData(<<[key |-> 1, value |-> CandidateEvaluation(ScenarioAPayload)]>>,
                                    ScenarioARequirements, 0)),
     WriteOutput(<<>>, ProfilesData(
        <<[key |-> 2, value |-> CandidateEvaluation(GapAndStrengthPayload)],
          [key |-> 1, value |-> CandidateEvaluation(ScenarioAPayload)],
          [key |-> 3, value |-> CandidateEvaluation(ScenarioAPayload)]>>,
        ScenarioARequirements, 0))}

\* One call of generate_questions_for_top_k_candidates(top_k) is followed.
QuestionsInit ==
    /\ BatchInit
    /\ file \in QuestionFiles
    /\ scorer = NoCall
    /\ runner = NoCall
    /\ analyzer = NoCall
    /\ rerun = NoCall
    /\ feedback = NoCall
    /\ \E top_k \in -1..MaxTopK, requirements_file \in {<<>>, <<AnalyzerDocument>>} :
          questions = [phase |-> "called", top_k |-> top_k,
                       requirements_file |-> requirements_file,
                       sorted_candidates |-> <<>>, idx |-> 1, generator |-> 1,
                       lists |-> <<>>, candidate_questions_list |-> <<>>,
                       interview_guide |-> <<>>, output_file |-> <<>>, error |-> "none"]

\* Lines 530-553: both files are loaded, the candidates sorted by affinity,
\* highest first, and the first top_k kept.
SelectTopK ==
    /\ questions.phase = "called"
    /\ IF file = <<>> \/ questions.requirements_file = <<>>
       THEN questions' = [questions EXCEPT !.phase = "raised", !.error = "FileNotFoundError"]
       ELSE questions' =
               [questions EXCEPT
                   !.phase = "loop",
                   !.sorted_candidates =
                       SliceTo(SortedByAffinity(<<>>, DictValues(json_load(file[1]).candidates)),
                               questions.top_k)]
    /\ UNCHANGED <<batch_vars, scorer, runner, analyzer, rerun, feedback>>

\* Lines 561-612: the next generator call for the candidate at idx; after the
\* fifth the candidate's CandidateQuestions is appended.
GenerateNext ==
    /\ questions.phase = "loop"
    /\ questions.idx <= Len(questions.sorted_candidates)
    /\ \E reply \in QuestionReplies :
          LET candidate_eval == questions.sorted_candidates[questions.idx]
              generated == GenerateQuestions(questions.generator, candidate_eval, reply)
              lists == Append(questions.lists, generated.value)
          IN IF ~generated.ok
             THEN questions' = [questions EXCEPT !.phase = "raised", !.error = generated.error]
             ELSE IF questions.generator < Len(QuestionTypes)
             THEN questions' = [questions EXCEPT !.generator = @ + 1, !.lists = lists]
             ELSE questions' =
                     [questions EXCEPT
                         !.generator = 1,
                         !.lists = <<>>,
                         !.idx = @ + 1,
                         !.candidate_questions_list =
                             Append(@, CandidateQuestions(candidate_eval, lists))]
    /\ UNCHANGED <<batch_vars, scorer, runner, analyzer, rerun, feedback>>

\* Lines 614-636: the guide is built, written to output_file and returned.
SaveGuide ==
    /\ questions.phase = "loop"
    /\ questions.idx > Len(questions.sorted_candidates)
    /\ LET interview_guide == [top_k |-> questions.top_k,
                               candidates |-> questions.candidate_questions_list,
                               common_questions |-> <<>>]
       IN questions' = [questions EXCEPT !.phase = "returned",
                                         !.interview_guide = <<interview_guide>>,
                                         !.output_file = <<interview_guide>>]
    /\ UNCHANGED <<batch_vars, scorer, runner, analyzer, rerun, feedback>>

QuestionsNext ==
    \/ SelectTopK
    \/ GenerateNext
    \/ SaveGuide

QuestionsSpec == QuestionsInit /\ [][QuestionsNext]_vars

\* ================================================================ claims
\* A batch run has ended: evaluate_all_candidates returned or raised.
RunEnded == pc = "idle" /\ clock > 0

\* The EvaluationBatch obtained by reloading the output file.
PersistedBatch == json_load(file[1])

PersistedEntries == DictValues(PersistedBatch.candidates)

\* C1: partial-failure isolation. Whatever subset of the candidates fails
\* (no documents, oracle error, undecodable reply), evaluate_all_candidates
\* does not raise, and the batch it returns and persists has an entry for
\* exactly the candidates for which an attempt succeeded.
C1_PartialFailureIsolation ==
    RunEnded =>
        /\ outcome = "returned"
        /\ DictKeys(all_profiles) = succeeded
        /\ DictKeys(PersistedBatch.candidates) = {ToString(id) : id \in succeeded}

\* A run over [1, 2] in which candidate 1 failed and candidate 2 succeeded.
C1_Witness ==
    /\ RunEnded
    /\ candidate_ids = <<1, 2>>
    /\ succeeded = {2}
    /\ DictKeys(all_profiles) = {2}

\* C2: the batch always completes and is always persisted. Every run that
\* ended, whatever succeeded or failed in it, returned with the output file
\* written by that run (it carries the run's evaluation_date); with no
\* success the written batch has candidates == {} and total_candidates == 0.
C2_AlwaysPersisted ==
    RunEnded =>
        /\ outcome = "returned"
        /\ file # <<>>
        /\ PersistedBatch.metadata.evaluation_date = clock
        /\ succeeded = {} =>
            /\ PersistedBatch.candidates = <<>>
            /\ PersistedBatch.metadata.total_candidates = 0

\* A second run in which both attempts failed, over a file the first run
\* had filled.
C2_Witness ==
    /\ RunEnded
    /\ clock = 2
    /\ Len(candidate_ids) = 2
    /\ succeeded = {}
    /\ file # <<>>
    /\ PersistedBatch.candidates = <<>>

\* C3: in every persisted batch total_candidates is the number of entries of
\* the candidates map, and that is the number of distinct candidates scored
\* successfully in the run that wrote it, not the length of candidate_ids.
C3_TotalCandidates ==
    file # <<>> =>
        /\ PersistedBatch.metadata.total_candidates = Len(PersistedBatch.candidates)
        /\ Len(PersistedBatch.candidates) = Cardinality(DictKeys(PersistedBatch.candidates))
        /\ RunEnded => Len(PersistedBatch.candidates) = Cardinality(succeeded)

\* A run that succeeded for fewer distinct candidates than it was given ids.
C3_Witness ==
    /\ RunEnded
    /\ file # <<>>
    /\ Cardinality(succeeded) = 1
    /\ Len(candidate_ids) = 2
    /\ PersistedBatch.metadata.total_candidates = 1

NonIncreasing(entries) ==
    \A k \in 1..(Len(entries) - 1) :
        entries[k].affinity_score >= entries[k + 1].affinity_score

\* C4: ranking totality and order. For a persisted batch with N candidates
\* the ranking has exactly N entries, one per candidate of the batch, in
\* non-increasing affinity order.
C4_RankingTotalityAndOrder ==
    ranking.status = "ok" =>
        /\ Len(ranking.entries) = Len(PersistedEntries)
        /\ \A c \in {PersistedEntries[k] : k \in DOMAIN PersistedEntries} :
              Cardinality({k \in DOMAIN ranking.entries : ranking.entries[k] = c}) = 1
        /\ NonIncreasing(ranking.entries)

\* A ranking of two candidates that reverses the order of the file.
C4_Witness ==
    /\ ranking.status = "ok"
    /\ Len(ranking.entries) = 2
    /\ ranking.entries[1].affinity_score > ranking.entries[2].affinity_score
    /\ ranking.entries[1] = PersistedEntries[2]

\* C5: tie-break. Whatever the order of candidate_ids, candidates of equal
\* affinity_score appear in the ranking in ascending candidate_id order.
C5_TieBreakAscendingId ==
    ranking.status = "ok" =>
        \A k \in 1..(Len(ranking.entries) - 1) :
            ranking.entries[k].affinity_score = ranking.entries[k + 1].affinity_score
                => ranking.entries[k].candidate_id < ranking.entries[k + 1].candidate_id

\* C6: rank_candidates_by_affinity is read-only and repeatable. A call
\* leaves the evaluation file unchanged, and a call that follows another with
\* no batch run in between returns the same entries in the same order.
C6_RankReadOnlyRepeatable ==
    [][rank_calls' > rank_calls =>
          /\ file' = file
          /\ rank_calls > 0 => ranking' = ranking]_vars

\* The second of two consecutive rankings of a batch of two candidates.
C6_Witness ==
    /\ rank_calls = 2
    /\ ranking.status = "ok"
    /\ Len(ranking.entries) = 2

\* C7: stage sequencing of the ranker. A rank call raises the not-found error
\* exactly when the evaluation file does not exist; a completed batch run
\* leaves the file in place, and an existing file never disappears.
C7_RankerSequencing ==
    /\ [](/\ ranking.status # "none" =>
                (ranking.status = "FileNotFoundError" <=> file = <<>>)
          /\ outcome = "returned" => file # <<>>)
    /\ [][file # <<>> => file' # <<>>]_vars

\* A rank call before any batch run: it raised, and there is no file.
C7_Witness ==
    /\ rank_calls > 0
    /\ ranking.status = "FileNotFoundError"
    /\ file = <<>>

InUnitRange(x) == 0 <= x /\ x <= 100

\* C8: affinity bounds (P1). Every entry of a persisted batch has its
\* affinity_score and each feature score within [0.0, 1.0], whatever the
\* oracle returned.
C8_AffinityBounds ==
    file # <<>> =>
        \A k \in DOMAIN PersistedEntries :
            /\ InUnitRange(PersistedEntries[k].affinity_score)
            /\ \A j \in DOMAIN PersistedEntries[k].feature_scores :
                  InUnitRange(PersistedEntries[k].feature_scores[j].score)

RECURSIVE SumWeights(_)
SumWeights(feature_scores) ==
    IF feature_scores = <<>> THEN 0
    ELSE Head(feature_scores).weight + SumWeights(Tail(feature_scores))

RECURSIVE SumWeightedScores(_)
SumWeightedScores(feature_scores) ==
    IF feature_scores = <<>> THEN 0
    ELSE Head(feature_scores).score * Head(feature_scores).weight
            + SumWeightedScores(Tail(feature_scores))

Abs(x) == IF x < 0 THEN -x ELSE x

\* |affinity - sum(score*weight)/sum(weight)| <= 1e-6, cross-multiplied.
WeightedMeanConsistent(c) ==
    /\ SumWeights(c.feature_scores) > 0
    /\ Abs(c.affinity_score * SumWeights(c.feature_scores)
            - SumWeightedScores(c.feature_scores)) * 10000
          <= SumWeights(c.feature_scores)

\* C9: weighted-mean consistency (P2). Every entry of a batch has an
\* affinity_score within a small tolerance of the weighted mean of its scores.
C9_WeightedMeanConsistency ==
    file # <<>> => \A k \in DOMAIN PersistedEntries : WeightedMeanConsistent(PersistedEntries[k])

RecognizedExtensions == {".pdf", ".json", ".txt", ".md", ".rtf"}

NoRecognizedFile(candidate_dir) ==
    \/ ~candidate_dir.exists
    \/ \A k \in DOMAIN candidate_dir.entries :
          \/ ~candidate_dir.entries[k].is_file
          \/ candidate_dir.entries[k].suffix \notin RecognizedExtensions

C11_NoDocumentsError ==
    scorer.phase = "done" =>
        IF NoRecognizedFile(scorer.candidate_dir)
        THEN /\ ~scorer.result.ok
             /\ scorer.result.error = "ValueError"
             /\ scorer.oracle_calls = 0
        ELSE /\ scorer.result.error # "ValueError"
             /\ scorer.oracle_calls = 1

\* A directory that exists but holds only a picture and a sub-directory named
\* old.txt: the no-documents error, and no oracle call.
C11_Witness ==
    /\ scorer.phase = "done"
    /\ scorer.candidate_dir = [exists |-> TRUE, entries |-> <<PhotoPng, SubDirectory>>]
    /\ scorer.result.error = "ValueError"
    /\ scorer.oracle_calls = 0

\* ------------------------------------------------------------------------
\* C21. The oracle's response is decoded by the strategies in order, the first
\* success winning: the structured object (a model passed through, a dict
\* converted), then the raw text with its code fence stripped, then the raw
\* text as JSON. evaluate_candidate returns an evaluation exactly when one of
\* them yields a value valid for the CandidateEvaluation schema, and that
\* value is the first such; when all fail it raises.
ValidJson(tokens) ==
    /\ Len(tokens) = 1
    /\ tokens[1].tok = "json"
    /\ tokens[1].value.type = "dict"
    /\ RequiredFields \subseteq tokens[1].value.fields

\* The tokens of a text that opens with a fence, up to its closing fence.
InsideFence(text) ==
    LET closing == {k \in 2..Len(text) : text[k].tok \in {"fence_json", "fence"}}
    IN IF closing = {} THEN SubSeq(text, 2, Len(text))
       ELSE SubSeq(text, 2, (CHOOSE k \in closing : \A j \in closing : k <= j) - 1)

StrategyValues(reply) ==
    (IF reply.parsed.type = "CandidateEvaluation" THEN <<reply.parsed>>
     ELSE IF reply.parsed.type = "dict" /\ RequiredFields \subseteq reply.parsed.fields
     THEN <<[reply.parsed EXCEPT !.type = "CandidateEvaluation"]>>
     ELSE <<>>)
    \o (IF /\ reply.text # <<>>
           /\ reply.text[1].tok \in {"fence_json", "fence"}
           /\ ValidJson(InsideFence(reply.text))
        THEN <<[InsideFence(reply.text)[1].value EXCEPT !.type = "CandidateEvaluation"]>>
        ELSE <<>>)
    \o (IF ValidJson(reply.text)
        THEN <<[reply.text[1].value EXCEPT !.type = "CandidateEvaluation"]>>
        ELSE <<>>)

C21_DecodeStrategiesInOrder ==
    (/\ scorer.phase = "done"
     /\ scorer.oracle_calls = 1
     /\ ~scorer.reply.raised)
    => /\ scorer.result.ok <=> StrategyValues(scorer.reply) # <<>>
       /\ scorer.result.ok => scorer.result.value = StrategyValues(scorer.reply)[1]
       /\ ~scorer.result.ok => scorer.result.error # "none"

\* The structured object is a dict that is not valid for the schema; the text
\* holds a valid payload in a json code block, and that one is returned.
C21_Witness ==
    /\ scorer.phase = "done"
    /\ scorer.oracle_calls = 1
    /\ scorer.reply = Response(FlatPayload, <<FenceJson, Json(OffContractPayload), Fence>>)
    /\ scorer.result.ok
    /\ scorer.result.value = CandidateEvaluation(OffContractPayload)

\* ------------------------------------------------------------------------
\* C22. A corrupt document cannot block a candidate: for a directory with at
\* least one recognized file, the scan returns exactly one all_content entry
\* per recognized file, in enumeration order, also when files are unreadable
\* (their content is then the inline error text); evaluate_candidate does not
\* raise the no-documents error and calls the oracle.
RecognizedFiles(candidate_dir) ==
    SelectSeq(candidate_dir.entries,
              LAMBDA f : f.is_file /\ f.suffix \in RecognizedExtensions)

C22_CorruptDocumentDoesNotBlock ==
    (scorer.phase = "done" /\ ~NoRecognizedFile(scorer.candidate_dir)) =>
        LET all_content == scan_candidate_documents(scorer.candidate_dir).all_content
            recognized == RecognizedFiles(scorer.candidate_dir)
        IN /\ Len(all_content) = Len(recognized)
           /\ \A k \in DOMAIN recognized :
                 /\ all_content[k].filename = recognized[k].name
                 /\ ~recognized[k].readable => all_content[k].content[1] = "Error reading"
           /\ scorer.result.error # "ValueError"
           /\ scorer.oracle_calls = 1

\* Both files of the directory are unreadable; the oracle is called and its
\* answer returned.
C22_Witness ==
    /\ scorer.phase = "done"
    /\ scorer.candidate_dir = [exists |-> TRUE, entries |-> <<CorruptPdf, BrokenJson>>]
    /\ scorer.oracle_calls = 1
    /\ scorer.result.ok

\* ------------------------------------------------------------------------
\* C23. Deterministic concatenation order: for a fixed set of files, the
\* entries of all_content and the text assembled for the oracle are the same
\* whatever the order in which the directory is enumerated.
DistinctNames(entries) ==
    \A j, k \in DOMAIN entries : entries[j].name = entries[k].name => j = k

C23_DeterministicConcatenation ==
    (scorer.phase = "done" /\ DistinctNames(scorer.candidate_dir.entries)) =>
        \A p \in Permutations(DOMAIN scorer.candidate_dir.entries) :
            LET other == [scorer.candidate_dir EXCEPT
                             !.entries = [k \in DOMAIN scorer.candidate_dir.entries |->
                                             scorer.candidate_dir.entries[p[k]]]]
            IN /\ scan_candidate_documents(other).all_content =
                     scan_candidate_documents(scorer.candidate_dir).all_content
               /\ format_candidate_information(scan_candidate_documents(other)) =
                     format_candidate_information(
                        scan_candidate_documents(scorer.candidate_dir))

\* ------------------------------------------------------------------------
\* C12. All-or-nothing persistence: a run of evaluate_all_candidates writes the
\* output file exactly once, that write comes only when every element of
\* candidate_ids has been attempted, and until then every step of the run
\* leaves the file as it was before the run.
C12_AllOrNothingPersistence ==
    /\ [](pc = "loop" => writes = 0)
    /\ [](RunEnded /\ outcome = "returned" => writes = 1)
    /\ [][writes' # writes /\ writes' # 0 =>
              /\ pc = "loop"
              /\ Len(attempted) = Len(candidate_ids)
              /\ writes' = 1]_vars
    /\ [][file' # file => writes' = writes + 1]_vars

\* A second run over two candidates has written once, over an earlier file.
C12_Witness ==
    /\ RunEnded
    /\ clock = 2
    /\ writes = 1
    /\ Len(attempted) = 2
    /\ held_before # {}

\* ------------------------------------------------------------------------
\* C13. Overwrite, not merge: when a run has completed, the candidates of the
\* output file are exactly the candidates that succeeded in this run, each with
\* this run's evaluation; a candidate the file held before the run is still
\* there only if it succeeded again.
C13_OverwriteNotMerge ==
    RunEnded /\ outcome = "returned" =>
        /\ HeldKeys(file) = {ToString(id) : id \in succeeded}
        /\ \A key \in held_before \cap HeldKeys(file) :
              \E id \in succeeded : key = ToString(id)
        /\ \A id \in succeeded :
              DictGet(PersistedBatch.candidates, ToString(id)) =
                 SerializableCandidate(id, DictGet(all_profiles, id))
        /\ Len(file[1].candidates) = Cardinality(succeeded)

\* The file held candidates 1 and 2; the run was given candidate 1 only, which
\* failed: neither is in the file afterwards.
C13_Witness ==
    /\ RunEnded
    /\ outcome = "returned"
    /\ held_before = {"1", "2"}
    /\ candidate_ids = <<1>>
    /\ succeeded = {}
    /\ HeldKeys(file) = {}

\* ------------------------------------------------------------------------
\* C14. Fail-fast preconditions: when the job requirements file is missing,
\* when the loaded requirements carry no weights, or when the candidate list
\* is empty, run_candidate_evaluation raises, no candidate has been attempted,
\* the oracle has not been called, and the evaluations file is as it was:
\* absent if it was absent, unchanged if it existed.
CarriesNoWeights(job_file) ==
    /\ job_file # <<>>
    /\ job_file[1].weights = <<>> \/ job_file[1].weights = <<<<>>>>
    /\ job_file[1].weights_dict = <<>> \/ job_file[1].weights_dict = <<<<>>>>

EmptyCandidateList(ids_argument, listing) ==
    \/ ids_argument = <<<<>>>>
    \/ ids_argument = None /\ Sorted(CollectIds(listing)) = <<>>

C14_FailFastPreconditions ==
    (/\ runner.phase # "none"
     /\ \/ runner.job_file = <<>>
        \/ CarriesNoWeights(runner.job_file)
        \/ EmptyCandidateList(runner.ids_argument, runner.listing))
    => /\ runner.phase = "raised"
       /\ runner.error # "none"
       /\ pc = "idle"
       /\ clock = 0
       /\ attempted = <<>>
       /\ oracle_calls = 0
       /\ writes = 0
       /\ file = runner.file_before

\* The requirements are good and the call passes an empty list, with the file
\* of an earlier run in place: ValueError, and the file is that file still.
C14_Witness ==
    /\ runner.phase = "raised"
    /\ runner.job_file = <<CachedViewDocument>>
    /\ runner.ids_argument = <<<<>>>>
    /\ runner.error = "ValueError"
    /\ runner.file_before = EarlierFile
    /\ file = EarlierFile

\* ------------------------------------------------------------------------
\* C15. Default candidate discovery: called without a candidate-id list, over
\* good requirements and a data directory that has candidate_<int>
\* directories, run_candidate_evaluation evaluates exactly their ids in
\* ascending order.
C15_DefaultDiscovery ==
    (/\ runner.phase # "none"
     /\ runner.ids_argument = None
     /\ runner.job_file = <<CachedViewDocument>>
     /\ Sorted(CollectIds(runner.listing)) # <<>>)
    => /\ runner.phase \in {"running", "returned"}
       /\ candidate_ids = Sorted(CollectIds(runner.listing))

\* ------------------------------------------------------------------------
\* C16. Requirements-document tolerance: given the document that
\* save_job_analysis writes for analyze_job_from_url's result, with weights
\* and without weights_dict, and a non-empty candidate list,
\* run_candidate_evaluation derives the requirements from weights and goes on
\* to evaluate the candidates.
C16_RequirementsTolerance ==
    (/\ runner.phase # "none"
     /\ runner.job_file = <<AnalyzerDocument>>
     /\ runner.ids_argument # None
     /\ runner.ids_argument # <<<<>>>>)
    => /\ runner.phase \in {"running", "returned"}
       /\ requirements = convert_weights_to_requirements(ScenarioAWeights)

\* ------------------------------------------------------------------------
\* C17. Service error mapping: /evaluate_candidates answers 404 when
\* run_candidate_evaluation raised FileNotFoundError, 400 when it raised
\* ValueError, 500 when it raised anything else, and 200 with the result when
\* it returned; every call that has ended has one of these answers.
C17_ServiceErrorMapping ==
    (runner.phase \in {"raised", "returned"} /\ runner.via = "endpoint") =>
        /\ runner.status_code \in {200, 400, 404, 500}
        /\ runner.status_code = 404 <=> runner.error = "FileNotFoundError"
        /\ runner.status_code = 400 <=> runner.error = "ValueError"
        /\ runner.status_code = 200 <=> runner.phase = "returned"
        /\ runner.status_code = 500 <=>
              (runner.phase = "raised" /\ runner.error \notin {"FileNotFoundError", "ValueError"})

\* The endpoint met a requirements document whose weights are empty: 400.
C17_Witness ==
    /\ runner.phase = "raised"
    /\ runner.via = "endpoint"
    /\ runner.job_file = <<EmptyWeightsDocument>>
    /\ runner.error = "ValueError"
    /\ runner.status_code = 400

\* ------------------------------------------------------------------------
\* C18. generate_feature_weights returns a mapping with all ten FEATURES and
\* Technical Mastery at 1.0: when the LLM returned an object, every other
\* feature has the LLM's weight if the object gives one and 0.5 if not; when
\* the call or the parse failed, every other feature has 0.5.
ReturnedObject(reply) ==
    /\ ~reply.raised
    /\ Len(StripFences(reply.text)) = 1
    /\ StripFences(reply.text)[1].tok = "json"
    /\ StripFences(reply.text)[1].value.type = "dict"

C18_AllFeaturesWeighted ==
    analyzer.phase = "done" =>
        /\ \A k \in DOMAIN FEATURES : DictHas(analyzer.weights, FEATURES[k])
        /\ DictGet(analyzer.weights, "Technical Mastery") = 100
        /\ \A k \in DOMAIN FEATURES :
              FEATURES[k] # "Technical Mastery" =>
                 DictGet(analyzer.weights, FEATURES[k]) =
                    IF /\ ReturnedObject(analyzer.reply)
                       /\ DictHas(StripFences(analyzer.reply.text)[1].value.items, FEATURES[k])
                    THEN DictGet(StripFences(analyzer.reply.text)[1].value.items, FEATURES[k])
                    ELSE 50

\* The LLM's object, in a json code block, weighs Growth Hunger 0.3 and
\* Technical Mastery 0.3 and leaves the others out.
C18_Witness ==
    /\ analyzer.phase = "done"
    /\ analyzer.reply.text =
          <<FenceJson,
            Json(JsonObject(<<[key |-> "Growth Hunger", value |-> 30],
                              [key |-> "Technical Mastery", value |-> 30]>>)),
            Fence>>
    /\ DictGet(analyzer.weights, "Technical Mastery") = 100
    /\ DictGet(analyzer.weights, "Growth Hunger") = 30
    /\ DictGet(analyzer.weights, "Team Elevation") = 50

\* ------------------------------------------------------------------------
\* C19. Sequential input-order processing: the candidates attempted so far are
\* a prefix of candidate_ids, and every attempt is the next element of
\* candidate_ids, begun when the one before it has ended in a success or in a
\* caught failure.
C19_SequentialInputOrder ==
    /\ [](/\ Len(attempted) <= Len(candidate_ids)
          /\ attempted = SubSeq(candidate_ids, 1, Len(attempted))
          /\ pc = "loop" => pos = Len(attempted) + 1)
    /\ [][attempted' # attempted /\ attempted' # <<>> =>
              /\ pc = "loop"
              /\ pos = Len(attempted) + 1
              /\ attempted' = Append(attempted, candidate_ids[pos])
              /\ pos' = pos + 1
              /\ \/ succeeded' = succeeded \cup {candidate_ids[pos]}
                 \/ succeeded' = succeeded]_vars

\* Candidates <<2, 1>> were attempted in that order: 2 failed and was passed
\* over, then 1 succeeded.
C19_Witness ==
    /\ candidate_ids = <<2, 1>>
    /\ attempted = <<2, 1>>
    /\ succeeded = {1}

\* ------------------------------------------------------------------------
\* C20. No retry: evaluate_candidate calls the oracle at most once whatever the
\* reply, a reply no strategy decodes is an error of that candidate, and a
\* batch run makes at most one oracle call for each element of candidate_ids.
C20_NoRetry ==
    /\ [](/\ oracle_calls <= Len(attempted)
          /\ Len(attempted) <= Len(candidate_ids))
    /\ [](\A candidate_dir \in CandidateDirs : \A reply \in RepliesFor(candidate_dir) :
             /\ OracleCalls(candidate_dir, reply) <= 1
             /\ (OracleCalled(candidate_dir) /\ ~reply.raised /\ ~DecodeResponse(reply).ok)
                   => ~evaluate_candidate(candidate_dir, reply).ok)
    /\ [][oracle_calls' <= oracle_calls + 1]_vars

\* Two candidates were attempted and both failed, one of them after its one
\* oracle call and one without any.
C20_Witness ==
    /\ RunEnded
    /\ Len(attempted) = 2
    /\ succeeded = {}
    /\ oracle_calls = 1

\* ------------------------------------------------------------------------
\* C24. Replacement under the same key: for an id the loop has attempted more
\* than once, the batch holds an entry exactly when one of the attempts
\* succeeded, it holds one entry only, and the entry is the evaluation of the
\* last attempt that succeeded; the document the run serializes carries that
\* same evaluation under the id's key.
Attempts(candidate_id) == {k \in DOMAIN attempted : attempted[k] = candidate_id}

EntriesOf(candidate_id) == {k \in DOMAIN all_profiles : all_profiles[k].key = candidate_id}

C24_ReplacementUnderSameKey ==
    \A candidate_id \in CandidateIds :
        Cardinality(Attempts(candidate_id)) > 1 =>
            IF last_evaluation[candidate_id] = <<>>
            THEN EntriesOf(candidate_id) = {}
            ELSE /\ Cardinality(EntriesOf(candidate_id)) = 1
                 /\ DictGet(all_profiles, candidate_id) = last_evaluation[candidate_id][1]
                 /\ outcome = "returned" =>
                       LET written == profiles_data[1].candidates
                           key == ToString(candidate_id)
                       IN /\ Cardinality({k \in DOMAIN written : written[k].key = key}) = 1
                          /\ DictGet(written, key) =
                                SerializableCandidate(candidate_id,
                                                      last_evaluation[candidate_id][1])

C24_Witness ==
    /\ outcome = "returned"
    /\ attempted = <<1, 1>>
    /\ last_evaluation[1] # <<>>
    /\ last_evaluation[1][1].affinity_score = ScenarioAPayload.affinity_score
    /\ Len(all_profiles) = 1

\* ------------------------------------------------------------------------
\* C25. Idempotent re-run: a run of evaluate_all_candidates with the same
\* candidate_ids and requirements as the run before it, the oracle answering
\* the same for every candidate, writes the same document as that run did (the
\* same candidates map, the same total_candidates and requirements), except
\* for evaluation_date, whatever the output file held when the run began.
C25_IdempotentRerun ==
    (rerun.phase = "running" /\ outcome = "returned" /\ rerun.written # <<>>) =>
        /\ Len(file) = 1
        /\ file[1].candidates = rerun.written[1].candidates
        /\ file[1].metadata.total_candidates = rerun.written[1].metadata.total_candidates
        /\ file = <<[rerun.written[1] EXCEPT !.metadata.evaluation_date =
                                              file[1].metadata.evaluation_date]>>

C25_Witness ==
    /\ rerun.phase = "running"
    /\ outcome = "returned"
    /\ rerun.written # <<>>
    /\ held_before = {"2"}
    /\ HeldKeys(file) = {"1"}
    /\ file[1].metadata.evaluation_date # rerun.written[1].metadata.evaluation_date

\* ------------------------------------------------------------------------
\* C26. Downstream ordering inside run_candidate_evaluation: the file is ranked
\* only after evaluate_all_candidates of the same call has written it, so the
\* ranking returned holds exactly the candidates that succeeded in this call
\* (total_evaluated entries, each as this call evaluated it), and top_candidate
\* is None exactly when no candidate succeeded and otherwise an entry of the
\* ranking with the maximum affinity_score.
RankedIds == {ranking.entries[k].candidate_id : k \in DOMAIN ranking.entries}

ThisRunsEntry(candidate_id) ==
    LoadCandidate(DumpCandidate(SerializableCandidate(candidate_id,
                                                      last_evaluation[candidate_id][1])))

C26_ReturnedRanking ==
    runner.phase = "returned" =>
        /\ RankedIds = succeeded
        /\ Len(ranking.entries) = runner.total_evaluated
        /\ Cardinality(succeeded) = runner.total_evaluated
        /\ \A k \in DOMAIN ranking.entries :
              ranking.entries[k] = ThisRunsEntry(ranking.entries[k].candidate_id)
        /\ (runner.top_candidate = <<>>) <=> (succeeded = {})
        /\ runner.top_candidate # <<>> =>
              /\ \E k \in DOMAIN ranking.entries : ranking.entries[k] = runner.top_candidate[1]
              /\ \A k \in DOMAIN ranking.entries :
                    ranking.entries[k].affinity_score <= runner.top_candidate[1].affinity_score

C26_DownstreamOrdering ==
    /\ []C26_ReturnedRanking
    /\ [][rank_calls' > rank_calls =>
             (pc = "idle" /\ outcome = "returned" /\ writes = 1 /\ file # <<>>)]_vars

C26_Witness ==
    /\ runner.phase = "returned"
    /\ runner.file_before = EarlierFile
    /\ succeeded = {1}
    /\ Len(attempted) = 2
    /\ runner.top_candidate # <<>>
    /\ runner.top_candidate[1].candidate_id = 1

\* ------------------------------------------------------------------------
\* C27. Key/id consistency of the persisted batch: after a run has returned,
\* every member of the file's candidates map has the key str(candidate_id) of
\* the candidate_id field it carries, no key occurs twice, and that id is an
\* element of the candidate_ids the run was given.
Elements(ids) == {ids[k] : k \in DOMAIN ids}

C27_KeyIdConsistency ==
    (pc = "idle" /\ outcome = "returned") =>
        /\ file # <<>>
        /\ \A k \in DOMAIN file[1].candidates :
              LET member == file[1].candidates[k]
              IN /\ member[1] = ToString(member[2].candidate_id)
                 /\ member[2].candidate_id \in Elements(candidate_ids)
                 /\ \A j \in DOMAIN file[1].candidates :
                       file[1].candidates[j][1] = member[1] => j = k
        /\ \A k \in DOMAIN PersistedBatch.candidates :
              /\ PersistedBatch.candidates[k].key =
                    ToString(PersistedBatch.candidates[k].value.candidate_id)
              /\ PersistedBatch.candidates[k].value.candidate_id \in Elements(candidate_ids)

C27_Witness ==
    /\ pc = "idle"
    /\ outcome = "returned"
    /\ clock = 2
    /\ candidate_ids = <<2, 1>>
    /\ Len(file[1].candidates) = 2
    /\ file[1].candidates[1][1] = "2"
    /\ file[1].candidates[2][2].candidate_id = 1

\* ------------------------------------------------------------------------
\* C28. Cumulative feedback summary: once a call of
\* generate_feedback_for_candidate has succeeded on the summary file, and
\* whatever calls were made on it, its feedback_generated_for is the number of entries of its feedback map; the map
\* has one entry per candidate feedback was generated for, the latest one, and
\* the entries the file held before for other candidates are as they were.
GeneratedFor == {candidate_id \in CandidateIds : feedback.generated[candidate_id] # <<>>}

FirstFeedback == IF feedback.first_summary = <<>> THEN <<>>
                 ELSE feedback.first_summary[1].feedback

C28_CumulativeFeedbackSummary ==
    (feedback.phase = "called" /\ GeneratedFor # {}) =>
        LET feedback_data == feedback.summary[1]
        IN /\ feedback_data.metadata.feedback_generated_for = Len(feedback_data.feedback)
           /\ Cardinality(DictKeys(feedback_data.feedback)) = Len(feedback_data.feedback)
           /\ DictKeys(feedback_data.feedback) =
                 {ToString(candidate_id) : candidate_id \in GeneratedFor}
                    \cup DictKeys(FirstFeedback)
           /\ \A candidate_id \in GeneratedFor :
                 DictGet(feedback_data.feedback, ToString(candidate_id)) =
                    feedback.generated[candidate_id][1]
           /\ \A key \in DictKeys(FirstFeedback) :
                 key \notin {ToString(candidate_id) : candidate_id \in GeneratedFor} =>
                    DictGet(feedback_data.feedback, key) = DictGet(FirstFeedback, key)

C28_Witness ==
    /\ feedback.phase = "called"
    /\ feedback.calls = 2
    /\ feedback.first_summary = EarlierSummary
    /\ feedback.candidate_id = 1
    /\ feedback.individual_before[1] # <<>>
    /\ feedback.individual_before[1][1].industry_alignment_score = 60
    /\ feedback.generated[1] # <<>>
    /\ feedback.generated[1][1].industry_alignment_score = 80
    /\ feedback.summary[1].metadata.feedback_generated_for = 2

\* ------------------------------------------------------------------------
\* C29. generate_feedback_for_candidate for an id the evaluation file has no
\* entry for raises, ValueError when both input files can be read, without a
\* call of the oracle, and the summary file and the candidate's individual
\* feedback file are after the call what they were before it.
NoEvaluationEntry ==
    /\ feedback.phase = "called"
    /\ ToString(feedback.candidate_id) \notin HeldKeys(file)

C29_UnknownCandidateRaisesFirst ==
    NoEvaluationEntry =>
        /\ ~feedback.result.ok
        /\ (file # <<>> /\ feedback.requirements_file # <<>>) =>
              feedback.result.error = "ValueError"
        /\ feedback.oracle_calls = feedback.oracle_calls_before
        /\ feedback.summary = feedback.summary_before
        /\ feedback.individual[feedback.candidate_id] =
              feedback.individual_before[feedback.candidate_id]

C29_Witness ==
    /\ NoEvaluationEntry
    /\ file = EarlierFile
    /\ feedback.requirements_file # <<>>
    /\ feedback.candidate_id = 1
    /\ feedback.result.error = "ValueError"
    /\ feedback.oracle_calls_before = 1
    /\ feedback.summary # <<>>
    /\ feedback.generated[2] # <<>>

\* ------------------------------------------------------------------------
\* C30. Top-K selection: a call of generate_questions_for_top_k_candidates with
\* top_k >= 0 that returns, on an evaluation file with N candidates, has built
\* a guide of exactly min(top_k, N) candidates of the file, each once, in
\* non-increasing order of affinity, none with a lower affinity than a
\* candidate of the file that is left out; and every listed candidate's
\* total_questions is the sum of the lengths of its five lists, at most 10.
FileCandidates == DictValues(json_load(file[1]).candidates)

GuideCandidates == questions.interview_guide[1].candidates

ListedIds == {GuideCandidates[k].candidate_id : k \in DOMAIN GuideCandidates}

C30_TopKSelection ==
    (questions.phase = "returned" /\ questions.top_k >= 0) =>
        /\ Len(GuideCandidates) = Min(questions.top_k, Len(FileCandidates))
        /\ Cardinality(ListedIds) = Len(GuideCandidates)
        /\ \A k \in DOMAIN GuideCandidates :
              \E j \in DOMAIN FileCandidates :
                 /\ FileCandidates[j].candidate_id = GuideCandidates[k].candidate_id
                 /\ FileCandidates[j].affinity_score =
                       GuideCandidates[k].candidate_affinity_score
        /\ \A j, k \in DOMAIN GuideCandidates :
              j < k => GuideCandidates[j].candidate_affinity_score >=
                          GuideCandidates[k].candidate_affinity_score
        /\ \A k \in DOMAIN GuideCandidates : \A j \in DOMAIN FileCandidates :
              FileCandidates[j].candidate_id \notin ListedIds =>
                 GuideCandidates[k].candidate_affinity_score >= FileCandidates[j].affinity_score
        /\ \A k \in DOMAIN GuideCandidates :
              LET c == GuideCandidates[k]
              IN /\ c.total_questions =
                       Len(c.gap_probing_questions) + Len(c.depth_validation_questions)
                          + Len(c.behavioral_questions) + Len(c.technical_questions)
                          + Len(c.role_specific_questions)
                 /\ c.total_questions <= 10

C30_Witness ==
    /\ questions.phase = "returned"
    /\ questions.top_k = 2
    /\ Len(FileCandidates) = 3
    /\ Len(GuideCandidates) = 2
    /\ GuideCandidates[1].candidate_id = 1
    /\ GuideCandidates[2].candidate_id = 3
    /\ GuideCandidates[1].total_questions = 7
    /\ GuideCandidates[2].total_questions = 3

====
